---- MODULE Spec2Model ----
(***************************************************************************)
(* Recurring ("daily") tasks of the AI-Taskboard application:              *)
(* apps/main/models.py (DailyTask, DailyTaskCompletion),                   *)
(* apps/main/forms.py (DailyTaskForm) and apps/main/views.py               *)
(* (daily_tasks_view, daily_tasks_today_view).                             *)
(*                                                                         *)
(* Python values that the code compares across types are modelled as       *)
(* tagged records: PyInt(3) is the integer 3, PyStr("3") the string "3";   *)
(* they are never equal, as in Python.                                     *)
(***************************************************************************)
EXTENDS Integers, Sequences, FiniteSets, TLC

(* ---------------------------------------------------------------------- *)
(* Bounds                                                                 *)
(* ---------------------------------------------------------------------- *)
MaxTasks == 1           \* DailyTask rows ever created (ids 1..MaxTasks)
MaxDay == 1             \* the clock runs over the days 0..MaxDay
MaxCompletions == 2     \* cap on the size of the completion ledger
MaxInflight == 1        \* complete requests suspended between check and insert
MaxSortLen == 3         \* longest list handed to the due-today sort

Users == {"u1", "u2"}

(* ---------------------------------------------------------------------- *)
(* Python values                                                          *)
(* ---------------------------------------------------------------------- *)
PyInt(n) == [int |-> n]
PyStr(s) == [str |-> s]

Range(seq) == {seq[i] : i \in 1..Len(seq)}

DigitStr == <<"0", "1", "2", "3", "4", "5", "6", "7", "8", "9">>

\* str(n) / f"{n}" for a one-digit integer
Format(n) == DigitStr[n + 1]

\* int(s): the integer a decimal string denotes; ParsesAsInt(s) is FALSE
\* where int(s) raises ValueError
ParsesAsInt(s) == \E n \in 0..9 : DigitStr[n + 1] = s
ParseInt(s) == CHOOSE n \in 0..9 : DigitStr[n + 1] = s

\* date.weekday(): day 0 of the model's calendar is a Monday
Weekday(d) == d % 7

(* ---------------------------------------------------------------------- *)
(* DailyTask model and DailyTaskForm                                      *)
(* ---------------------------------------------------------------------- *)
WEEKDAY_CHOICES == {0, 1, 2, 3, 4, 5, 6}

\* Mutant: the field only requires a value
ScheduledDaysFieldValid_NonEmptyOnly(values) == Len(values) > 0

\* MultipleChoiceField(choices=WEEKDAY_CHOICES, required=True).clean:
\* a non-empty list whose every value is str(k) of a choice key
ScheduledDaysFieldValid(values) ==
    /\ Len(values) > 0
    /\ \A i \in 1..Len(values) : \E k \in WEEKDAY_CHOICES : Format(k) = values[i]

FormIsValid(form) == ScheduledDaysFieldValid(form.scheduled_days)

\* DailyTask.clean: every entry of a non-empty scheduled_days is one of the
\* integers 0..6
clean(scheduled_days) ==
    scheduled_days # <<>> =>
        \A i \in 1..Len(scheduled_days) :
            \E k \in {0, 1, 2, 3, 4, 5, 6} : scheduled_days[i] = PyInt(k)

\* form.is_valid(): the fields' validation, then instance.full_clean(), which
\* runs DailyTask.clean on the instance as it is before save() assigns the
\* posted days
ModelFormIsValid(form, instance_days) == FormIsValid(form) /\ clean(instance_days)

\* DailyTaskForm.save: instance.scheduled_days = [int(day) for day in ...]
FormScheduledDays(form) ==
    [i \in 1..Len(form.scheduled_days) |-> PyInt(ParseInt(form.scheduled_days[i]))]

\* Mutant: the weekday is looked up as text, as the due-today view does
is_scheduled_today_AsText(task, d) ==
    [str |-> DigitStr[Weekday(d) + 1]] \in Range(task.scheduled_days)

\* DailyTask.is_scheduled_today with timezone.now() on day d
is_scheduled_today(task, d) == PyInt(Weekday(d)) \in Range(task.scheduled_days)

\* The POST bodies of the create/edit form that the model submits.
\* reminder_time is <<>> (None) or <<hour, minute, second>>.
DailyTaskForms ==
    { [title |-> "a", assignees |-> {}, priority |-> "medium",
       scheduled_days |-> <<"0">>, reminder_time |-> <<>>, is_active |-> TRUE],
      [title |-> "b", assignees |-> {"u2"}, priority |-> "high",
       scheduled_days |-> <<"1", "0">>, reminder_time |-> <<23, 59, 0>>,
       is_active |-> TRUE],
      [title |-> "a", assignees |-> {"u1"}, priority |-> "low",
       scheduled_days |-> <<"1">>, reminder_time |-> <<9, 0, 0>>,
       is_active |-> FALSE],
      [title |-> "b", assignees |-> {}, priority |-> "medium",
       scheduled_days |-> <<>>, reminder_time |-> <<>>, is_active |-> TRUE],
      [title |-> "b", assignees |-> {}, priority |-> "medium",
       scheduled_days |-> <<"7">>, reminder_time |-> <<>>, is_active |-> TRUE],
      [title |-> "a", assignees |-> {"u2"}, priority |-> "high",
       scheduled_days |-> <<"0", "7">>, reminder_time |-> <<>>, is_active |-> TRUE] }

\* The POST bodies of the completion form: notes and the raw
\* actual_minutes string ("" when the field is left empty).
CompletionInputs ==
    { [notes |-> "", actual_minutes |-> ""],
      [notes |-> "n", actual_minutes |-> "5"],
      [notes |-> "n", actual_minutes |-> "x"] }

VARIABLES
    daily_tasks,    \* DailyTask table: id -> row
    next_id,        \* next DailyTask primary key
    completions,    \* DailyTaskCompletion table: set of rows
    today,          \* timezone.now().date()
    inflight,       \* complete requests that passed the existence check
                    \* and have not yet run objects.create
    response,       \* what the last finished request returned
    sort_list,      \* a list handed to the due-today sort
    sort_result,    \* the list after today_tasks.sort(...)
    schedule,       \* one scheduled_days value on its way through the form,
                    \* the JSON column and get_scheduled_days_display
    detail,         \* what the last daily_tasks_detail_view request returned
    task_rows,      \* Task table: id -> row
    next_task_id,   \* next Task primary key
    now,            \* timezone.now()
    task_response,  \* what the last finished Task request returned
    projects,       \* Project table: id -> row, with its members relation
    next_project_id,\* next Project primary key
    project_members,\* ProjectMember table: set of rows
    project_response, \* what the last finished Project request returned
    mindmap_projects,    \* MindmapProject table: id -> row
    next_mindmap_project_id, \* next MindmapProject primary key
    mindmap_nodes,       \* MindmapNode table: id -> row
    next_node_id,        \* next MindmapNode primary key
    mindmap_connections, \* MindmapConnection table: set of rows
    next_connection_id,  \* next MindmapConnection primary key
    contains_lookup,     \* whether the database backend has the JSON
                         \* contains lookup
    mindmap_response     \* what the last finished mindmap request returned

appvars == <<daily_tasks, next_id, completions, today, inflight, response>>
sortvars == <<sort_list, sort_result>>
taskvars == <<task_rows, next_task_id, now, task_response>>
projectvars == <<projects, next_project_id, project_members, project_response>>
mindmapvars == <<mindmap_projects, next_mindmap_project_id, mindmap_nodes,
                 next_node_id, mindmap_connections, next_connection_id,
                 contains_lookup, mindmap_response>>
extvars == <<taskvars, projectvars, mindmapvars>>
auxvars == <<sortvars, schedule, detail, extvars>>
dailyvars == <<appvars, sortvars, schedule, detail>>
vars == <<appvars, auxvars>>

TaskIds == 1..MaxTasks

NoResponse == [op |-> "none", user |-> "u1", outcome |-> "none",
               today_tasks |-> <<>>, completed_today |-> {}]

NoSchedule == [step |-> "none", posted |-> <<>>, stored |-> <<>>, display |-> ""]

NoDetail == [user |-> "u1", task_id |-> 0, outcome |-> "none", streak |-> 0,
             total_completions |-> 0, scheduled_days_count |-> 0,
             completion_rate |-> 0]

NoTaskResponse == [op |-> "none", user |-> "u1", outcome |-> "none"]

\* The Task tables before any Task exists
TaskIdle ==
    /\ task_rows = <<>>
    /\ next_task_id = 1
    /\ now = 0
    /\ task_response = NoTaskResponse

\* The Project tables before any Project exists
ProjectIdle ==
    /\ projects = <<>>
    /\ next_project_id = 1
    /\ project_members = {}
    /\ project_response = NoTaskResponse

\* The mindmap tables before any mindmap project exists
MindmapIdle ==
    /\ mindmap_projects = <<>>
    /\ next_mindmap_project_id = 1
    /\ mindmap_nodes = <<>>
    /\ next_node_id = 1
    /\ mindmap_connections = {}
    /\ next_connection_id = 1
    /\ contains_lookup = TRUE
    /\ mindmap_response = NoTaskResponse

ExtIdle == TaskIdle /\ ProjectIdle /\ MindmapIdle

Init ==
    /\ daily_tasks = <<>>
    /\ next_id = 1
    /\ completions = {}
    /\ today = 0
    /\ inflight = {}
    /\ response = NoResponse
    /\ sort_list = <<>>
    /\ sort_result = <<>>
    /\ schedule = NoSchedule
    /\ detail = NoDetail
    /\ ExtIdle

(* ---------------------------------------------------------------------- *)
(* Storage layer                                                          *)
(* ---------------------------------------------------------------------- *)
PyNone == [none |-> TRUE]

\* Removing the row with primary key tid from a table
DeleteRow(table, tid) == [i \in DOMAIN table \ {tid} |-> table[i]]

\* Mutant: the table has no unique constraint
ViolatesUniqueTogether_None(table, row) == FALSE

\* unique_together = ['daily_task', 'user', 'date']
ViolatesUniqueTogether(table, row) ==
    \E c \in table : /\ c.daily_task = row.daily_task
                     /\ c.user = row.user
                     /\ c.date = row.date

\* Mutant: the INSERT checks the foreign key only
InsertRaisesIntegrityError_FkOnly(table, tasks, row) ==
    row.daily_task \notin DOMAIN tasks

\* The INSERT that DailyTaskCompletion.objects.create issues raises
\* IntegrityError when the unique constraint or the foreign key to
\* DailyTask is violated.
InsertRaisesIntegrityError(table, tasks, row) ==
    \/ ViolatesUniqueTogether(table, row)
    \/ row.daily_task \notin DOMAIN tasks

\* Mutant: the foreign key does not cascade
CascadeDelete_NoCascade(table, tid) == table

\* on_delete=models.CASCADE from DailyTaskCompletion.daily_task
CascadeDelete(table, tid) == {c \in table : c.daily_task # tid}

(* ---------------------------------------------------------------------- *)
(* daily_tasks_view: create, edit, delete, toggle_active                  *)
(* ---------------------------------------------------------------------- *)
\* Mutant: every user has access to every task
HasAccess_Anyone(task, u) == TRUE

\* daily_task.creator == bot_user or bot_user in daily_task.assignees.all()
HasAccess(task, u) == task.creator = u \/ u \in task.assignees

Respond(op, u, outcome) ==
    [op |-> op, user |-> u, outcome |-> outcome,
     today_tasks |-> <<>>, completed_today |-> {}]

\* 'create_task' in request.POST
CreateTask(u, form) ==
    /\ next_id <= MaxTasks
    /\ IF ModelFormIsValid(form, <<>>)
       THEN /\ daily_tasks' = daily_tasks @@
                  (next_id :> [id |-> next_id,
                               title |-> form.title,
                               creator |-> u,
                               assignees |-> form.assignees,
                               priority |-> form.priority,
                               scheduled_days |-> FormScheduledDays(form),
                               reminder_time |-> form.reminder_time,
                               is_active |-> form.is_active])
            /\ next_id' = next_id + 1
            /\ response' = Respond("create", u, "success")
       ELSE /\ UNCHANGED <<daily_tasks, next_id>>
            /\ response' = Respond("create", u, "invalid")
    /\ UNCHANGED <<completions, today, inflight, auxvars>>

\* Mutant: a successful edit resets the task's completion history
EditTask_ResetsHistory(u, tid, form) ==
    /\ IF tid \notin DOMAIN daily_tasks
       THEN /\ UNCHANGED <<daily_tasks, completions>>
            /\ response' = Respond("edit", u, "not_found")
       ELSE IF ~HasAccess(daily_tasks[tid], u)
       THEN /\ UNCHANGED <<daily_tasks, completions>>
            /\ response' = Respond("edit", u, "permission_denied")
       ELSE IF ~ModelFormIsValid(form, daily_tasks[tid].scheduled_days)
       THEN /\ UNCHANGED <<daily_tasks, completions>>
            /\ response' = Respond("edit", u, "invalid")
       ELSE /\ daily_tasks' = [daily_tasks EXCEPT ![tid] =
                  [@ EXCEPT !.title = form.title,
                            !.assignees = form.assignees,
                            !.priority = form.priority,
                            !.scheduled_days = FormScheduledDays(form),
                            !.reminder_time = form.reminder_time,
                            !.is_active = form.is_active]]
            /\ completions' = {c \in completions : c.daily_task # tid}
            /\ response' = Respond("edit", u, "success")
    /\ UNCHANGED <<next_id, today, inflight, auxvars>>

\* 'edit_task' in request.POST
EditTask(u, tid, form) ==
    /\ IF tid \notin DOMAIN daily_tasks
       THEN /\ UNCHANGED daily_tasks
            /\ response' = Respond("edit", u, "not_found")
       ELSE IF ~HasAccess(daily_tasks[tid], u)
       THEN /\ UNCHANGED daily_tasks
            /\ response' = Respond("edit", u, "permission_denied")
       ELSE IF ~ModelFormIsValid(form, daily_tasks[tid].scheduled_days)
       THEN /\ UNCHANGED daily_tasks
            /\ response' = Respond("edit", u, "invalid")
       ELSE /\ daily_tasks' = [daily_tasks EXCEPT ![tid] =
                  [@ EXCEPT !.title = form.title,
                            !.assignees = form.assignees,
                            !.priority = form.priority,
                            !.scheduled_days = FormScheduledDays(form),
                            !.reminder_time = form.reminder_time,
                            !.is_active = form.is_active]]
            /\ response' = Respond("edit", u, "success")
    /\ UNCHANGED <<next_id, completions, today, inflight, auxvars>>

\* Mutant: delete is open to the assignees as edit is
DeleteTask_ByAccess(u, tid) ==
    /\ IF tid \notin DOMAIN daily_tasks
       THEN /\ UNCHANGED <<daily_tasks, completions>>
            /\ response' = Respond("delete", u, "not_found")
       ELSE IF ~HasAccess(daily_tasks[tid], u)
       THEN /\ UNCHANGED <<daily_tasks, completions>>
            /\ response' = Respond("delete", u, "permission_denied")
       ELSE /\ daily_tasks' = DeleteRow(daily_tasks, tid)
            /\ completions' = CascadeDelete(completions, tid)
            /\ response' = Respond("delete", u, "success")
    /\ UNCHANGED <<next_id, today, inflight, auxvars>>

\* 'delete_task' in request.POST
DeleteTask(u, tid) ==
    /\ IF tid \notin DOMAIN daily_tasks
       THEN /\ UNCHANGED <<daily_tasks, completions>>
            /\ response' = Respond("delete", u, "not_found")
       ELSE IF daily_tasks[tid].creator # u
       THEN /\ UNCHANGED <<daily_tasks, completions>>
            /\ response' = Respond("delete", u, "permission_denied")
       ELSE /\ daily_tasks' = DeleteRow(daily_tasks, tid)
            /\ completions' = CascadeDelete(completions, tid)
            /\ response' = Respond("delete", u, "success")
    /\ UNCHANGED <<next_id, today, inflight, auxvars>>

\* Mutant: the request activates the task instead of negating the flag
ToggleActive_Activates(u, tid) ==
    /\ IF tid \notin DOMAIN daily_tasks
       THEN /\ UNCHANGED daily_tasks
            /\ response' = Respond("toggle", u, "not_found")
       ELSE IF ~HasAccess(daily_tasks[tid], u)
       THEN /\ UNCHANGED daily_tasks
            /\ response' = Respond("toggle", u, "permission_denied")
       ELSE /\ daily_tasks' = [daily_tasks EXCEPT ![tid].is_active = TRUE]
            /\ response' = Respond("toggle", u, "success")
    /\ UNCHANGED <<next_id, completions, today, inflight, auxvars>>

\* 'toggle_active' in request.POST
ToggleActive(u, tid) ==
    /\ IF tid \notin DOMAIN daily_tasks
       THEN /\ UNCHANGED daily_tasks
            /\ response' = Respond("toggle", u, "not_found")
       ELSE IF ~HasAccess(daily_tasks[tid], u)
       THEN /\ UNCHANGED daily_tasks
            /\ response' = Respond("toggle", u, "permission_denied")
       ELSE /\ daily_tasks' = [daily_tasks EXCEPT ![tid].is_active = ~@]
            /\ response' = Respond("toggle", u, "success")
    /\ UNCHANGED <<next_id, completions, today, inflight, auxvars>>

\* The clock passes midnight
Tick ==
    /\ today < MaxDay
    /\ today' = today + 1
    /\ UNCHANGED <<daily_tasks, next_id, completions, inflight, response, auxvars>>

(* ---------------------------------------------------------------------- *)
(* daily_tasks_today_view: the due-today list                             *)
(* ---------------------------------------------------------------------- *)
\* DailyTask.objects.filter(Q(creator=u) | Q(assignees=u), is_active=True)
\*     .distinct()
AllDailyTasks(tasks, u) ==
    {i \in DOMAIN tasks : HasAccess(tasks[i], u) /\ tasks[i].is_active}

\* f"{today_weekday}" in (task.scheduled_days or [])
WeekdayInScheduledDays(wd, days) == PyStr(Format(wd)) \in Range(days)

\* The orders in which the database may return the rows of a queryset
RECURSIVE QuerysetOrders(_)
QuerysetOrders(S) ==
    IF S = {} THEN {<<>>}
    ELSE UNION {{<<x>> \o rest : rest \in QuerysetOrders(S \ {x})} : x \in S}

\* [task for task in all_daily_tasks if f"{today_weekday}" in ...]
RECURSIVE FilterScheduled(_, _, _)
FilterScheduled(tasks, order, wd) ==
    IF order = <<>> THEN <<>>
    ELSE (IF WeekdayInScheduledDays(wd, tasks[Head(order)].scheduled_days)
          THEN <<tasks[Head(order)]>> ELSE <<>>)
         \o FilterScheduled(tasks, Tail(order), wd)

\* Python compares str by code point; titles are single letters
Alphabet == <<"a", "b", "c">>
CodePoint(s) == CHOOSE i \in 1..Len(Alphabet) : Alphabet[i] = s
StrLess(s, t) == CodePoint(s) < CodePoint(t)

\* datetime.time comparison
TimeLess(a, b) ==
    \/ a[1] < b[1]
    \/ a[1] = b[1] /\ a[2] < b[2]
    \/ a[1] = b[1] /\ a[2] = b[2] /\ a[3] < b[3]

\* key=lambda x: (x.reminder_time or time(23, 59), x.title)
SortKey(x) ==
    [time |-> IF x.reminder_time = <<>> THEN <<23, 59, 0>> ELSE x.reminder_time,
     title |-> x.title]

KeyLess(k1, k2) ==
    \/ TimeLess(k1.time, k2.time)
    \/ k1.time = k2.time /\ StrLess(k1.title, k2.title)

\* list.sort is stable: x goes behind every element whose key is not greater
RECURSIVE InsertByKey(_, _)
InsertByKey(sorted, x) ==
    IF sorted = <<>> THEN <<x>>
    ELSE IF KeyLess(SortKey(x), SortKey(Head(sorted)))
         THEN <<x>> \o sorted
         ELSE <<Head(sorted)>> \o InsertByKey(Tail(sorted), x)

RECURSIVE SortTodayTasks(_)
SortTodayTasks(list) ==
    IF list = <<>> THEN <<>>
    ELSE InsertByKey(SortTodayTasks(SubSeq(list, 1, Len(list) - 1)),
                     list[Len(list)])

\* Mutant: the view lists every active row of the table
TodayTasks_Unfiltered(tasks, u, d, order) ==
    LET all == CHOOSE l \in QuerysetOrders({i \in DOMAIN tasks : tasks[i].is_active}) :
                  TRUE
    IN  SortTodayTasks([i \in 1..Len(all) |-> tasks[all[i]]])

\* today_tasks of the view for user u on day d, the database returning the
\* rows in the given order
TodayTasks(tasks, u, d, order) ==
    SortTodayTasks(FilterScheduled(tasks, order, Weekday(d)))

Ids(list) == [i \in 1..Len(list) |-> list[i].id]

\* DailyTaskCompletion.objects.filter(daily_task__in=today_tasks, user=u,
\*     date=today).values_list('daily_task_id', flat=True)
CompletedToday(table, today_tasks, u, d) ==
    {c.daily_task : c \in {r \in table : /\ r.daily_task \in Range(Ids(today_tasks))
                                         /\ r.user = u
                                         /\ r.date = d}}

Render(u, outcome, today_tasks, table, d) ==
    [op |-> "today", user |-> u, outcome |-> outcome,
     today_tasks |-> Ids(today_tasks),
     completed_today |-> CompletedToday(table, today_tasks, u, d)]

(* ---------------------------------------------------------------------- *)
(* daily_tasks_today_view: requests                                       *)
(* ---------------------------------------------------------------------- *)
\* A request: its method, the names of the parameters it sends (in the
\* query string of a GET, in the body of a POST), the task_id and the
\* completion form; a request without complete_task sends an empty form
EmptyForm == [notes |-> "", actual_minutes |-> ""]

TodayRequests ==
    {req \in [method : {"GET", "POST"}, params : SUBSET {"complete_task"},
              task_id : TaskIds, form : CompletionInputs] :
        req.params = {} => req.form = EmptyForm}

\* request.POST: empty unless the method is POST
RequestPOST(req) == IF req.method = "POST" THEN req.params ELSE {}

\* Mutant: the parameter is looked up whatever the method
SubmitsCompletion_AnyMethod(req) == "complete_task" \in req.params

\* request.method == 'POST' and 'complete_task' in request.POST
SubmitsCompletion(req) == "complete_task" \in RequestPOST(req)

\* DailyTaskCompletion.objects.filter(daily_task=daily_task, user=bot_user,
\*     date=today)
ExistingCompletion(table, tid, u, d) ==
    {c \in table : c.daily_task = tid /\ c.user = u /\ c.date = d}

\* int(actual_minutes) if actual_minutes else None
RaisesValueError(form) ==
    form.actual_minutes # "" /\ ~ParsesAsInt(form.actual_minutes)

ActualMinutes(form) ==
    IF form.actual_minutes = "" THEN PyNone
    ELSE PyInt(ParseInt(form.actual_minutes))

CompletionRow(tid, u, d, form) ==
    [daily_task |-> tid, user |-> u, date |-> d,
     notes |-> form.notes, actual_minutes |-> ActualMinutes(form)]

\* Mutant: a missing task is not looked for before the insert
CheckOutcome_MissingIsInsert(tasks, table, u, d, req) ==
    IF req.task_id \notin DOMAIN tasks THEN "insert"
    ELSE IF ~HasAccess(tasks[req.task_id], u) THEN "permission_denied"
    ELSE IF ExistingCompletion(table, req.task_id, u, d) # {} THEN "already_completed"
    ELSE "insert"

\* Mutant: the view does not look for an existing completion
CheckOutcome_NoExistenceCheck(tasks, table, u, d, req) ==
    IF req.task_id \notin DOMAIN tasks THEN "not_found"
    ELSE IF ~HasAccess(tasks[req.task_id], u) THEN "permission_denied"
    ELSE "insert"

\* The outcome of a completion request up to and including its existence
\* check; "insert" when the request goes on to objects.create
CheckOutcome(tasks, table, u, d, req) ==
    IF req.task_id \notin DOMAIN tasks THEN "not_found"
    ELSE IF ~HasAccess(tasks[req.task_id], u) THEN "permission_denied"
    ELSE IF ExistingCompletion(table, req.task_id, u, d) # {}
         THEN "already_completed"
    ELSE "insert"

\* The outcome of DailyTaskCompletion.objects.create(...) with its argument
\* int(actual_minutes): ValueError is caught by the view, IntegrityError
\* is not
CreateOutcome(tasks, table, row, form) ==
    IF RaisesValueError(form) THEN "invalid_minutes"
    ELSE IF InsertRaisesIntegrityError(table, tasks, row) THEN "exception"
    ELSE "success"

\* One request to the view that runs from its first to its last line
\* without another request in between
TodayView(u, req) ==
    /\ \E order \in QuerysetOrders(AllDailyTasks(daily_tasks, u)) :
       LET list == TodayTasks(daily_tasks, u, today, order)
           checked == CheckOutcome(daily_tasks, completions, u, today, req)
           row == CompletionRow(req.task_id, u, today, req.form)
           created == CreateOutcome(daily_tasks, completions, row, req.form)
       IN  IF ~SubmitsCompletion(req)
           THEN /\ response' = Render(u, "rendered", list, completions, today)
                /\ UNCHANGED completions
           ELSE IF checked # "insert"
           THEN /\ response' = Render(u, checked, list, completions, today)
                /\ UNCHANGED completions
           ELSE IF created = "invalid_minutes"
           THEN /\ response' = Render(u, created, list, completions, today)
                /\ UNCHANGED completions
           ELSE IF created = "exception"
           THEN /\ response' = Respond("today", u, created)
                /\ UNCHANGED completions
           ELSE /\ Cardinality(completions) < MaxCompletions
                /\ completions' = completions \cup {row}
                /\ response' = Respond("today", u, created)
    /\ UNCHANGED <<daily_tasks, next_id, today, inflight, auxvars>>

\* A completion request found no existing completion and is suspended
\* before objects.create while other requests run
CompleteCheck(u, req) ==
    /\ SubmitsCompletion(req)
    /\ Cardinality(inflight) < MaxInflight
    /\ CheckOutcome(daily_tasks, completions, u, today, req) = "insert"
    /\ inflight' = inflight \cup
          {[user |-> u, task_id |-> req.task_id, date |-> today, form |-> req.form]}
    /\ UNCHANGED <<daily_tasks, next_id, completions, today, response, auxvars>>

\* The suspended request resumes at objects.create
CompleteInsert(r) ==
    /\ r \in inflight
    /\ inflight' = inflight \ {r}
    /\ LET row == CompletionRow(r.task_id, r.user, r.date, r.form)
           created == CreateOutcome(daily_tasks, completions, row, r.form)
       IN  IF created # "success"
           THEN /\ response' = Respond("today", r.user, created)
                /\ UNCHANGED completions
           ELSE /\ Cardinality(completions) < MaxCompletions
                /\ completions' = completions \cup {row}
                /\ response' = Respond("today", r.user, created)
    /\ UNCHANGED <<daily_tasks, next_id, today, auxvars>>

Next ==
    \/ \E u \in Users, form \in DailyTaskForms : CreateTask(u, form)
    \/ \E u \in Users, tid \in TaskIds, form \in DailyTaskForms : EditTask(u, tid, form)
    \/ \E u \in Users, tid \in TaskIds : DeleteTask(u, tid)
    \/ \E u \in Users, tid \in TaskIds : ToggleActive(u, tid)
    \/ \E u \in Users, req \in TodayRequests : TodayView(u, req)
    \/ \E u \in Users, req \in TodayRequests : CompleteCheck(u, req)
    \/ \E r \in inflight : CompleteInsert(r)
    \/ Tick

Spec == Init /\ [][Next]_vars

TypeOK ==
    /\ next_id \in 1..(MaxTasks + 1)
    /\ DOMAIN daily_tasks \subseteq 1..(next_id - 1)
    /\ today \in 0..MaxDay
    /\ Cardinality(inflight) <= MaxInflight
    /\ Cardinality(completions) <= MaxCompletions

(* ---------------------------------------------------------------------- *)
(* The due-today sort as a function of its input list                     *)
(* ---------------------------------------------------------------------- *)
\* The rows the sort is applied to: a title and a reminder_time each
SortRows ==
    [title : {"a", "b"},
     reminder_time : {<<>>, <<9, 0, 0>>, <<23, 59, 0>>, <<23, 59, 30>>}]

SortInputs == UNION {[1..n -> SortRows] : n \in 0..MaxSortLen}

SortInit ==
    /\ daily_tasks = <<>>
    /\ next_id = 1
    /\ completions = {}
    /\ today = 0
    /\ inflight = {}
    /\ response = NoResponse
    /\ sort_list \in SortInputs
    /\ sort_result = <<>>
    /\ schedule = NoSchedule
    /\ detail = NoDetail
    /\ ExtIdle

\* today_tasks.sort(key=lambda x: (x.reminder_time or time(23, 59), x.title))
SortStep ==
    /\ sort_list # <<>>
    /\ sort_result = <<>>
    /\ sort_result' = SortTodayTasks(sort_list)
    /\ UNCHANGED <<sort_list, appvars, schedule, detail, extvars>>

SortNext == SortStep

SortSpec == SortInit /\ [][SortNext]_vars

(* ---------------------------------------------------------------------- *)
(* scheduled_days: DailyTaskForm, the JSON column and the display         *)
(* ---------------------------------------------------------------------- *)
MaxDaysLen == 3         \* longest scheduled_days list drawn code by code

\* list.insert of x before the first entry greater than x
RECURSIVE InsertDay(_, _)
InsertDay(seq, x) ==
    IF seq = <<>> THEN <<x>>
    ELSE IF x.int < Head(seq).int THEN <<x>> \o seq
    ELSE <<Head(seq)>> \o InsertDay(Tail(seq), x)

\* sorted(self.scheduled_days)
RECURSIVE sorted(_)
sorted(days) ==
    IF days = <<>> THEN <<>>
    ELSE InsertDay(sorted(SubSeq(days, 1, Len(days) - 1)), days[Len(days)])

\* day_names = {0: 'Mon', ..., 6: 'Sun'}; day_names[k + 1] is the name of k
day_names == <<"Mon", "Tue", "Wed", "Thu", "Fri", "Sat", "Sun">>

\* sep.join(parts)
RECURSIVE Join(_, _)
Join(sep, parts) ==
    IF parts = <<>> THEN ""
    ELSE IF Len(parts) = 1 THEN parts[1]
    ELSE parts[1] \o sep \o Join(sep, Tail(parts))

\* Mutant: the names are joined in stored order
get_scheduled_days_display_Unsorted(days) ==
    IF days = <<>> THEN "No days scheduled"
    ELSE Join(", ", [i \in 1..Len(days) |-> day_names[days[i].int + 1]])

\* DailyTask.get_scheduled_days_display
get_scheduled_days_display(days) ==
    IF days = <<>> THEN "No days scheduled"
    ELSE Join(", ", [i \in 1..Len(days) |-> day_names[sorted(days)[i].int + 1]])

\* json.dumps of a list of integers, as the sequence of its tokens
RECURSIVE JsonItems(_)
JsonItems(days) ==
    IF days = <<>> THEN <<>>
    ELSE IF Len(days) = 1 THEN <<Format(days[1].int)>>
    ELSE <<Format(days[1].int), ",">> \o JsonItems(Tail(days))

JsonDumps(days) == <<"[">> \o JsonItems(days) \o <<"]">>

\* json.loads of the tokens of a list of integers
JsonLoads(tokens) ==
    LET body == SubSeq(tokens, 2, Len(tokens) - 1)
        numbers == SelectSeq(body, LAMBDA t : t # ",")
    IN  [i \in 1..Len(numbers) |-> PyInt(ParseInt(numbers[i]))]

\* The row's scheduled_days after instance.save() and a reload
StoredAndReloaded(days) == JsonLoads(JsonDumps(days))

\* The boxes of the CheckboxSelectMultiple widget from choice k on: the box
\* of a choice is checked when str(choice) is among the str() of the
\* initial values, and the checked boxes are posted in choice order
RECURSIVE CheckedFrom(_, _)
CheckedFrom(k, initial) ==
    IF k > 6 THEN <<>>
    ELSE (IF \E i \in 1..Len(initial) : Format(initial[i].int) = Format(k)
          THEN <<Format(k)>> ELSE <<>>) \o CheckedFrom(k + 1, initial)

\* Mutant: the edit form starts with no box checked
EditFormPost_Unchecked(stored) == <<>>

\* DailyTaskForm.__init__ with an instance: initial = instance.scheduled_days;
\* the POST of the edit form submitted as rendered
EditFormPost(stored) == IF stored # <<>> THEN CheckedFrom(0, stored) ELSE <<>>

\* The weekday codes a POST can carry: str(0)..str(6) and the code "7"
PostedCodes == {DigitStr[k + 1] : k \in 0..7}

\* The POSTed scheduled_days lists: every list of up to MaxDaysLen codes,
\* and the whole week in both orders
SchedulePosts ==
    UNION {[1..n -> PostedCodes] : n \in 0..MaxDaysLen}
        \cup {<<"0", "1", "2", "3", "4", "5", "6">>,
              <<"6", "5", "4", "3", "2", "1", "0">>}

ScheduleInit ==
    /\ daily_tasks = <<>>
    /\ next_id = 1
    /\ completions = {}
    /\ today = 0
    /\ inflight = {}
    /\ response = NoResponse
    /\ sort_list = <<>>
    /\ sort_result = <<>>
    /\ schedule \in {[step |-> "posted", posted |-> p, stored |-> <<>>,
                      display |-> ""] : p \in SchedulePosts}
    /\ detail = NoDetail
    /\ ExtIdle

\* A DailyTask() that was never saved (scheduled_days = default list) is
\* displayed
ScheduleUnsaved ==
    /\ schedule.step = "posted"
    /\ schedule' = [schedule EXCEPT
          !.step = "unsaved",
          !.display = get_scheduled_days_display(schedule.stored)]
    /\ UNCHANGED <<appvars, sortvars, detail, extvars>>

\* The create form is submitted: is_valid, save, then the row is reloaded
\* and displayed
ScheduleCreate ==
    /\ schedule.step = "posted"
    /\ IF ScheduledDaysFieldValid(schedule.posted)
       THEN LET days == StoredAndReloaded(
                            FormScheduledDays([scheduled_days |-> schedule.posted]))
            IN  schedule' = [schedule EXCEPT
                    !.step = "created",
                    !.stored = days,
                    !.display = get_scheduled_days_display(days)]
       ELSE schedule' = [schedule EXCEPT !.step = "invalid"]
    /\ UNCHANGED <<appvars, sortvars, detail, extvars>>

\* The edit form of the reloaded row is submitted as rendered
ScheduleResave ==
    /\ schedule.step = "created"
    /\ LET post == EditFormPost(schedule.stored)
       IN  IF ScheduledDaysFieldValid(post)
           THEN LET days == StoredAndReloaded(
                                FormScheduledDays([scheduled_days |-> post]))
                IN  schedule' = [schedule EXCEPT
                        !.step = "resaved",
                        !.stored = days,
                        !.display = get_scheduled_days_display(days)]
           ELSE schedule' = [schedule EXCEPT !.step = "resave_invalid"]
    /\ UNCHANGED <<appvars, sortvars, detail, extvars>>

ScheduleNext == ScheduleUnsaved \/ ScheduleCreate \/ ScheduleResave

ScheduleSpec == ScheduleInit /\ [][ScheduleNext]_vars

(* ---------------------------------------------------------------------- *)
(* daily_tasks_detail_view: completion history, streak, completion rate   *)
(* ---------------------------------------------------------------------- *)
MaxStatRecords == 5     \* cap on the ledgers the statistics are computed on

HistoryLimit == 30      \* .order_by('-date')[:30]
WindowDays == 30        \* timezone.now().date() - timedelta(days=30)

\* completions = ...filter(daily_task=daily_task, user=bot_user)
\*     .order_by('-date')[:30]; total_completions = completions.count()
total_completions(table, tid, u) ==
    LET n == Cardinality({c \in table : c.daily_task = tid /\ c.user = u})
    IN  IF n < HistoryLimit THEN n ELSE HistoryLimit

\* The function body imports timedelta at line 953, which makes timedelta a
\* local name of the whole function: it is bound once line 953 has run and
\* reading it before raises UnboundLocalError.
timedelta_IsBound(line) == line > 953

\* The streak loop from current_date = d with the counter at streak; the
\* step to the previous day (line 948) reads timedelta
RECURSIVE StreakScan(_, _, _, _, _)
StreakScan(table, tid, u, d, streak) ==
    IF ExistingCompletion(table, tid, u, d) # {}
    THEN IF timedelta_IsBound(948)
         THEN StreakScan(table, tid, u, d - 1, streak + 1)
         ELSE [raised |-> TRUE, streak |-> streak + 1]
    ELSE [raised |-> FALSE, streak |-> streak]

\* Mutant: the scan starts at the day before today
current_streak_FromYesterday(table, task, u, d) ==
    StreakScan(table, task.id, u, d - 1, 0)

\* streak = 0; current_date = timezone.now().date(); while True: ...
current_streak(table, task, u, d) == StreakScan(table, task.id, u, d, 0)

\* scheduled_days: the dates from d - 30 to d whose weekday is in the
\* task's scheduled_days
ScheduledDates(task, d) ==
    {x \in (d - WindowDays)..d : PyInt(Weekday(x)) \in Range(task.scheduled_days)}

\* round(total / count * 100, 1) in tenths of a percent; a tie goes to the
\* even tenth
RoundedRate(total, count) ==
    LET q == (total * 1000) \div count
        r == (total * 1000) % count
    IN  IF 2 * r < count THEN q
        ELSE IF 2 * r > count THEN q + 1
        ELSE q + (q % 2)

\* (total_completions / len(scheduled_days) * 100) if scheduled_days else 0,
\* rounded for the context
completion_rate(total, count) ==
    IF count # 0 THEN RoundedRate(total, count) ELSE 0

DetailRespond(u, tid, outcome) ==
    [user |-> u, task_id |-> tid, outcome |-> outcome, streak |-> 0,
     total_completions |-> 0, scheduled_days_count |-> 0, completion_rate |-> 0]

\* GET of the detail page of task tid by user u
DetailView(u, tid) ==
    /\ IF tid \notin DOMAIN daily_tasks
       THEN detail' = DetailRespond(u, tid, "not_found")
       ELSE IF ~HasAccess(daily_tasks[tid], u)
       THEN detail' = DetailRespond(u, tid, "permission_denied")
       ELSE LET task == daily_tasks[tid]
                total == total_completions(completions, tid, u)
                scan == current_streak(completions, task, u, today)
                count == Cardinality(ScheduledDates(task, today))
            IN  IF scan.raised
                THEN detail' = DetailRespond(u, tid, "exception")
                ELSE detail' = [user |-> u, task_id |-> tid,
                                outcome |-> "rendered",
                                streak |-> scan.streak,
                                total_completions |-> total,
                                scheduled_days_count |-> count,
                                completion_rate |-> completion_rate(total, count)]
    /\ UNCHANGED <<appvars, sortvars, schedule, extvars>>

\* The day the statistics are asked for: the Saturday of the model's fifth
\* week, so that the 30-day window starts on day 3
StatsToday == 4 * 7 + 5

\* The dates of the ledgers: two before the window, and Monday to Saturday
\* of the current week
StatsDates == {0, 2} \cup ((StatsToday - 5)..StatsToday)

\* The schedules of the task under study: the model field's default (a row
\* created without the form), Monday only, Monday/Wednesday/Friday, and
\* Saturday/Sunday stored Sunday first
StatsSchedules ==
    { <<>>, <<PyInt(0)>>, <<PyInt(0), PyInt(2), PyInt(4)>>, <<PyInt(6), PyInt(5)>> }

StatsTask(tid, days) ==
    [id |-> tid, title |-> "a", creator |-> "u1",
     assignees |-> IF tid = 1 THEN {"u2"} ELSE {}, priority |-> "medium",
     scheduled_days |-> days, reminder_time |-> <<>>, is_active |-> TRUE]

\* The rows a ledger is drawn from: u1's completions of task 1 on every
\* date, and u2's of task 1 and u1's of task 2 on the last two days
StatsRows ==
    {CompletionRow(1, "u1", d, [notes |-> "", actual_minutes |-> ""]) :
        d \in StatsDates}
    \cup {CompletionRow(1, "u2", d, [notes |-> "", actual_minutes |-> ""]) :
        d \in (StatsToday - 1)..StatsToday}
    \cup {CompletionRow(2, "u1", d, [notes |-> "", actual_minutes |-> ""]) :
        d \in (StatsToday - 1)..StatsToday}

StatsInit ==
    /\ \E days \in StatsSchedules :
          daily_tasks = (1 :> StatsTask(1, days)) @@ (2 :> StatsTask(2, <<PyInt(5)>>))
    /\ next_id = 3
    /\ completions \in {t \in SUBSET StatsRows : Cardinality(t) <= MaxStatRecords}
    /\ today = StatsToday
    /\ inflight = {}
    /\ response = NoResponse
    /\ sort_list = <<>>
    /\ sort_result = <<>>
    /\ schedule = NoSchedule
    /\ detail = NoDetail
    /\ ExtIdle

StatsNext == \E u \in Users, tid \in 1..3 : DetailView(u, tid)

StatsSpec == StatsInit /\ [][StatsNext]_vars

(* ---------------------------------------------------------------------- *)
(* Delete and complete on a ledger of two tasks                           *)
(* ---------------------------------------------------------------------- *)
\* The completion rows of two tasks that a ledger is drawn from
LedgerRows ==
    {CompletionRow(tid, u, d, EmptyForm) :
        tid \in 1..2, u \in Users, d \in 0..MaxDay}

\* The completion requests for either task
LedgerRequests ==
    {[method |-> "POST", params |-> {"complete_task"}, task_id |-> tid,
      form |-> EmptyForm] : tid \in 1..2}

\* Two tasks of u1, both assigned to u2, and the completions recorded so far
LedgerInit ==
    /\ daily_tasks = (1 :> [StatsTask(1, <<PyInt(0)>>) EXCEPT !.assignees = {"u2"}])
                      @@ (2 :> [StatsTask(2, <<PyInt(1)>>) EXCEPT !.assignees = {"u2"}])
    /\ next_id = 3
    /\ completions \in {t \in SUBSET LedgerRows : Cardinality(t) <= MaxCompletions}
    /\ today = MaxDay
    /\ inflight = {}
    /\ response = NoResponse
    /\ sort_list = <<>>
    /\ sort_result = <<>>
    /\ schedule = NoSchedule
    /\ detail = NoDetail
    /\ ExtIdle

LedgerNext ==
    \/ \E u \in Users, tid \in 1..2 : DeleteTask(u, tid)
    \/ \E u \in Users, req \in LedgerRequests : TodayView(u, req)
    \/ \E u \in Users, req \in LedgerRequests : CompleteCheck(u, req)
    \/ \E r \in inflight : CompleteInsert(r)

LedgerSpec == LedgerInit /\ [][LedgerNext]_vars

(* ---------------------------------------------------------------------- *)
(* Task: save, task_crud_view and the AJAX endpoints                      *)
(* ---------------------------------------------------------------------- *)
MaxTaskRows == 1        \* Task rows ever created
MaxNow == 2             \* the clock runs over the instants 0..MaxNow

\* Task.STATUS_CHOICES
STATUS_CHOICES == {"todo", "in_progress", "review", "completed", "cancelled"}

\* Mutant: every save of a completed task stamps it
TaskSave_AlwaysStamps(row, t) ==
    IF row.status = "completed"
    THEN [row EXCEPT !.completed_at = <<t>>]
    ELSE [row EXCEPT !.completed_at = <<>>]

\* Task.save at instant t; completed_at is <<>> (None) or <<instant>>
TaskSave(row, t) ==
    IF row.status = "completed" /\ row.completed_at = <<>>
    THEN [row EXCEPT !.completed_at = <<t>>]
    ELSE IF row.status # "completed"
    THEN [row EXCEPT !.completed_at = <<>>]
    ELSE row

\* task.creator == bot_user or bot_user in task.assignees.all()
TaskAccess(row, u) == row.creator = u \/ u \in row.assignees

\* The POST bodies of the task form: the project id as text ("" when none
\* is selected), the status and the assignees
TaskForms ==
    [project : {"", "1", "9"}, status : {"todo", "completed", "bogus"},
     assignees : {{}, {"u2"}}]

\* TaskForm.is_valid(): the status is one of the choices
TaskFormIsValid(form) == form.status \in STATUS_CHOICES

TaskRespond(op, u, outcome) == [op |-> op, user |-> u, outcome |-> outcome]

\* task_crud_view, POST: the outcome before anything is saved. A project id
\* without a row ends in `render(..., context)` before context is assigned.
TaskPostOutcome(form) ==
    IF ~(TaskFormIsValid(form) /\ form.project # "") THEN "invalid"
    ELSE IF ParseInt(form.project) \notin DOMAIN projects THEN "exception"
    ELSE "success"

\* task_crud_view without task_id, POST
TaskCreate(u, form) ==
    /\ next_task_id <= MaxTaskRows
    /\ IF TaskPostOutcome(form) = "success"
       THEN /\ task_rows' = task_rows @@
                  (next_task_id :>
                      TaskSave([id |-> next_task_id,
                                creator |-> u,
                                assignees |-> form.assignees,
                                priority |-> "medium",
                                status |-> form.status,
                                completed_at |-> <<>>], now))
            /\ next_task_id' = next_task_id + 1
       ELSE UNCHANGED <<task_rows, next_task_id>>
    /\ task_response' = TaskRespond("create", u, TaskPostOutcome(form))
    /\ UNCHANGED <<now, projectvars, dailyvars, mindmapvars>>

\* task_crud_view with task_id, POST
TaskEdit(u, tid, form) ==
    /\ IF tid \notin DOMAIN task_rows
       THEN /\ UNCHANGED task_rows
            /\ task_response' = TaskRespond("edit", u, "not_found")
       ELSE IF ~TaskAccess(task_rows[tid], u)
       THEN /\ UNCHANGED task_rows
            /\ task_response' = TaskRespond("edit", u, "denied")
       ELSE /\ IF TaskPostOutcome(form) = "success"
               THEN task_rows' = [task_rows EXCEPT ![tid] =
                        TaskSave([@ EXCEPT !.status = form.status,
                                           !.assignees = form.assignees,
                                           !.creator = u], now)]
               ELSE UNCHANGED task_rows
            /\ task_response' = TaskRespond("edit", u, TaskPostOutcome(form))
    /\ UNCHANGED <<next_task_id, now, projectvars, dailyvars, mindmapvars>>

\* The outcome of an AJAX endpoint before it writes: get_object_or_404
\* raises Http404 inside the try block, which `except Exception` turns into
\* the error response
AjaxOutcome(tid, u) ==
    IF tid \notin DOMAIN task_rows THEN "error"
    ELSE IF ~TaskAccess(task_rows[tid], u) THEN "denied"
    ELSE "success"

\* The values of the 'status' key of an update_task_status body: <<>> when
\* the key is absent (None), else <<text>>
StatusInputs == {<<>>, <<"todo">>, <<"in_progress">>, <<"completed">>, <<"bogus">>}

\* update_task_status; saving status = None violates NOT NULL, and the
\* exception ends in the error response
UpdateTaskStatus(u, tid, new_status) ==
    /\ IF AjaxOutcome(tid, u) # "success"
       THEN /\ UNCHANGED task_rows
            /\ task_response' = TaskRespond("update_status", u, AjaxOutcome(tid, u))
       ELSE IF new_status = <<>>
       THEN /\ UNCHANGED task_rows
            /\ task_response' = TaskRespond("update_status", u, "error")
       ELSE /\ task_rows' = [task_rows EXCEPT ![tid] =
                  TaskSave([@ EXCEPT !.status = new_status[1]], now)]
            /\ task_response' = TaskRespond("update_status", u, "success")
    /\ UNCHANGED <<next_task_id, now, projectvars, dailyvars, mindmapvars>>

\* update_task_priority
UpdateTaskPriority(u, tid, new_priority) ==
    /\ IF AjaxOutcome(tid, u) # "success"
       THEN UNCHANGED task_rows
       ELSE task_rows' = [task_rows EXCEPT ![tid] =
                TaskSave([@ EXCEPT !.priority = new_priority], now)]
    /\ task_response' = TaskRespond("update_priority", u, AjaxOutcome(tid, u))
    /\ UNCHANGED <<next_task_id, now, projectvars, dailyvars, mindmapvars>>

\* assign_task: task.assignees.add(assignee), without a save
AssignTask(u, tid, assignee) ==
    /\ IF AjaxOutcome(tid, u) # "success"
       THEN UNCHANGED task_rows
       ELSE task_rows' = [task_rows EXCEPT ![tid].assignees = @ \cup {assignee}]
    /\ task_response' = TaskRespond("assign", u, AjaxOutcome(tid, u))
    /\ UNCHANGED <<next_task_id, now, projectvars, dailyvars, mindmapvars>>

\* toggle_task_completion
ToggleTaskCompletion(u, tid, completed) ==
    /\ IF AjaxOutcome(tid, u) # "success"
       THEN UNCHANGED task_rows
       ELSE task_rows' = [task_rows EXCEPT ![tid] =
                TaskSave([@ EXCEPT !.status =
                             IF completed THEN "completed" ELSE "todo"], now)]
    /\ task_response' = TaskRespond("toggle_completion", u, AjaxOutcome(tid, u))
    /\ UNCHANGED <<next_task_id, now, projectvars, dailyvars, mindmapvars>>

\* Time passes
TaskTick ==
    /\ now < MaxNow
    /\ now' = now + 1
    /\ UNCHANGED <<task_rows, next_task_id, task_response, projectvars, dailyvars, mindmapvars>>

\* No Task yet, and project 1 of u1 with its owner row
TaskInit ==
    /\ daily_tasks = <<>>
    /\ next_id = 1
    /\ completions = {}
    /\ today = 0
    /\ inflight = {}
    /\ response = NoResponse
    /\ sort_list = <<>>
    /\ sort_result = <<>>
    /\ schedule = NoSchedule
    /\ detail = NoDetail
    /\ TaskIdle
    /\ projects = (1 :> [id |-> 1, creator |-> "u1", members |-> {"u1"}])
    /\ next_project_id = 2
    /\ project_members = {[project |-> 1, user |-> "u1", role |-> "owner"]}
    /\ project_response = NoTaskResponse
    /\ MindmapIdle

TaskNext ==
    \/ \E u \in Users, form \in TaskForms : TaskCreate(u, form)
    \/ \E u \in Users, tid \in 1..MaxTaskRows, form \in TaskForms : TaskEdit(u, tid, form)
    \/ \E u \in Users, tid \in 1..MaxTaskRows, st \in StatusInputs :
          UpdateTaskStatus(u, tid, st)
    \/ \E u \in Users, tid \in 1..MaxTaskRows : UpdateTaskPriority(u, tid, "high")
    \/ \E u \in Users, tid \in 1..MaxTaskRows, a \in Users : AssignTask(u, tid, a)
    \/ \E u \in Users, tid \in 1..MaxTaskRows, completed \in BOOLEAN :
          ToggleTaskCompletion(u, tid, completed)
    \/ TaskTick

TaskSpec == TaskInit /\ [][TaskNext]_vars

(* ---------------------------------------------------------------------- *)
(* Project: project_crud_view and the member endpoints                    *)
(* ---------------------------------------------------------------------- *)
MaxProjects == 1        \* Project rows ever created

\* BotUser rows by primary key, as the text a request carries
BotUserIds == {"1", "2"}
BotUserOf(id) == IF id = "1" THEN "u1" ELSE "u2"

\* ProjectMember.objects.filter(project=project).values_list('user')
MemberUsers(rows, pid) == {r.user : r \in {x \in rows : x.project = pid}}

\* Mutant: the relation is only added to
SyncMembers_AddOnly(old, rows, pid) == old \cup MemberUsers(rows, pid)

\* project.members.set(project_member_users)
SyncMembers(old, rows, pid) == MemberUsers(rows, pid)

\* project.creator == bot_user or a ProjectMember row of bot_user with one
\* of the roles
HasProjectRole(pid, u, roles) ==
    \/ projects[pid].creator = u
    \/ \E r \in project_members : r.project = pid /\ r.user = u /\ r.role \in roles

ProjectRespond(op, u, pid, outcome) ==
    [op |-> op, user |-> u, project |-> pid, outcome |-> outcome]

\* The POST bodies of the project form: whether the fields validate, and
\* the team_members list of user ids as text
ProjectForms ==
    [valid : BOOLEAN,
     team_members : {<<>>, <<"">>, <<"2">>, <<"1", "2">>, <<"3">>, <<"x">>}]

\* The entries of a team_members list that are not empty
PostedIds(form) ==
    {form.team_members[i] : i \in {j \in 1..Len(form.team_members) :
                                      form.team_members[j] # ""}}

\* The ProjectMember table after the team-members step for project pid of
\* creator c: the members no longer selected are removed and the selected
\* users without a row are added as viewers; an empty list removes every
\* member but the creator
TeamMembersStep(rows, pid, c, form) ==
    IF form.team_members = <<>>
    THEN {r \in rows : r.project # pid \/ r.user = c}
    ELSE LET new == {BotUserOf(id) : id \in PostedIds(form) \cap BotUserIds}
             kept == {r \in rows : r.project # pid \/ r.user = c \/ r.user \in new}
             added == {[project |-> pid, user |-> m, role |-> "viewer"] :
                          m \in {x \in new : x \notin MemberUsers(kept, pid)}}
         IN  kept \cup added

\* The team-members step raises: int(id) of text that is no number raises
\* ValueError before the table is touched; a user id without a BotUser row
\* raises IntegrityError at its insert, after the removals
TeamMembersRaises(form) == \E id \in PostedIds(form) : id \notin BotUserIds

\* The table as the raising step leaves it
TeamMembersPartial(rows, pid, c, form) ==
    IF \E id \in PostedIds(form) : ~ParsesAsInt(id) THEN rows
    ELSE {r \in rows : r.project # pid \/ r.user = c
                          \/ r.user \in {BotUserOf(id) : id \in PostedIds(form) \cap BotUserIds}}

\* project_crud_view without project_id, POST
ProjectCreate(u, form) ==
    /\ next_project_id <= MaxProjects
    /\ LET pid == next_project_id
           owner == {[project |-> pid, user |-> u, role |-> "owner"]}
       IN  IF ~form.valid
           THEN /\ UNCHANGED <<projects, next_project_id, project_members>>
                /\ project_response' = ProjectRespond("create", u, 0, "invalid")
           ELSE IF TeamMembersRaises(form)
           THEN /\ projects' = projects @@
                      (pid :> [id |-> pid, creator |-> u, members |-> {}])
                /\ next_project_id' = pid + 1
                /\ project_members' =
                      TeamMembersPartial(project_members \cup owner, pid, u, form)
                /\ project_response' = ProjectRespond("create", u, pid, "exception")
           ELSE LET rows == TeamMembersStep(project_members \cup owner, pid, u, form)
                IN  /\ projects' = projects @@
                          (pid :> [id |-> pid, creator |-> u,
                                   members |-> SyncMembers({}, rows, pid)])
                    /\ next_project_id' = pid + 1
                    /\ project_members' = rows
                    /\ project_response' = ProjectRespond("create", u, pid, "success")
    /\ UNCHANGED <<taskvars, dailyvars, mindmapvars>>

\* project_crud_view with project_id, POST
ProjectEdit(u, pid, form) ==
    /\ IF pid \notin DOMAIN projects
       THEN /\ UNCHANGED <<projects, project_members>>
            /\ project_response' = ProjectRespond("edit", u, pid, "not_found")
       ELSE IF ~HasProjectRole(pid, u, {"owner", "admin"})
       THEN /\ UNCHANGED <<projects, project_members>>
            /\ project_response' = ProjectRespond("edit", u, pid, "denied")
       ELSE IF ~form.valid
       THEN /\ UNCHANGED <<projects, project_members>>
            /\ project_response' = ProjectRespond("edit", u, pid, "invalid")
       ELSE IF TeamMembersRaises(form)
       THEN /\ UNCHANGED projects
            /\ project_members' =
                  TeamMembersPartial(project_members, pid, projects[pid].creator, form)
            /\ project_response' = ProjectRespond("edit", u, pid, "exception")
       ELSE LET rows == TeamMembersStep(project_members, pid,
                                        projects[pid].creator, form)
            IN  /\ projects' = [projects EXCEPT ![pid].members =
                                   SyncMembers(@, rows, pid)]
                /\ project_members' = rows
                /\ project_response' = ProjectRespond("edit", u, pid, "success")
    /\ UNCHANGED <<next_project_id, taskvars, dailyvars, mindmapvars>>

\* The outcome of a member endpoint before it writes: a missing project or
\* user raises Http404 inside the try block (the error response)
MemberOutcome(u, pid, id, roles) ==
    IF pid \notin DOMAIN projects \/ id \notin BotUserIds THEN "error"
    ELSE IF ~HasProjectRole(pid, u, roles) THEN "denied"
    ELSE "success"

\* add_project_member
AddProjectMember(u, pid, id, role) ==
    /\ LET checked == MemberOutcome(u, pid, id, {"owner", "admin"})
       IN  IF checked # "success"
           THEN /\ UNCHANGED <<projects, project_members>>
                /\ project_response' = ProjectRespond("add_member", u, pid, checked)
           ELSE IF BotUserOf(id) \in MemberUsers(project_members, pid)
           THEN /\ UNCHANGED <<projects, project_members>>
                /\ project_response' = ProjectRespond("add_member", u, pid, "rejected")
           ELSE LET rows == project_members \cup
                              {[project |-> pid, user |-> BotUserOf(id), role |-> role]}
                IN  /\ project_members' = rows
                    /\ projects' = [projects EXCEPT ![pid].members =
                                       SyncMembers(@, rows, pid)]
                    /\ project_response' =
                          ProjectRespond("add_member", u, pid, "success")
    /\ UNCHANGED <<next_project_id, taskvars, dailyvars, mindmapvars>>

\* remove_project_member
RemoveProjectMember(u, pid, id) ==
    /\ LET checked == MemberOutcome(u, pid, id, {"owner", "admin"})
       IN  IF checked # "success"
           THEN /\ UNCHANGED <<projects, project_members>>
                /\ project_response' = ProjectRespond("remove_member", u, pid, checked)
           ELSE IF projects[pid].creator = BotUserOf(id)
           THEN /\ UNCHANGED <<projects, project_members>>
                /\ project_response' =
                      ProjectRespond("remove_member", u, pid, "rejected")
           ELSE LET rows == {r \in project_members :
                                ~(r.project = pid /\ r.user = BotUserOf(id))}
                IN  /\ project_members' = rows
                    /\ projects' = [projects EXCEPT ![pid].members =
                                       SyncMembers(@, rows, pid)]
                    /\ project_response' =
                          ProjectRespond("remove_member", u, pid, "success")
    /\ UNCHANGED <<next_project_id, taskvars, dailyvars, mindmapvars>>

\* update_member_role
UpdateMemberRole(u, pid, id, role) ==
    /\ LET checked == MemberOutcome(u, pid, id, {"owner"})
       IN  IF checked # "success"
           THEN /\ UNCHANGED <<projects, project_members>>
                /\ project_response' = ProjectRespond("update_role", u, pid, checked)
           ELSE IF projects[pid].creator = BotUserOf(id)
           THEN /\ UNCHANGED <<projects, project_members>>
                /\ project_response' =
                      ProjectRespond("update_role", u, pid, "rejected")
           ELSE LET rows == {IF r.project = pid /\ r.user = BotUserOf(id)
                             THEN [r EXCEPT !.role = role] ELSE r :
                                r \in project_members}
                IN  /\ project_members' = rows
                    /\ projects' = [projects EXCEPT ![pid].members =
                                       SyncMembers(@, rows, pid)]
                    /\ project_response' =
                          ProjectRespond("update_role", u, pid, "success")
    /\ UNCHANGED <<next_project_id, taskvars, dailyvars, mindmapvars>>

ProjectInit ==
    /\ daily_tasks = <<>>
    /\ next_id = 1
    /\ completions = {}
    /\ today = 0
    /\ inflight = {}
    /\ response = NoResponse
    /\ sort_list = <<>>
    /\ sort_result = <<>>
    /\ schedule = NoSchedule
    /\ detail = NoDetail
    /\ TaskIdle
    /\ projects = <<>>
    /\ next_project_id = 1
    /\ project_members = {}
    /\ project_response = ProjectRespond("none", "u1", 0, "none")
    /\ MindmapIdle

\* The roles and user ids that the member endpoints are called with
MemberRoles == {"owner", "admin", "viewer"}
MemberIds == {"1", "2", "3"}

ProjectNext ==
    \/ \E u \in Users, form \in ProjectForms : ProjectCreate(u, form)
    \/ \E u \in Users, pid \in 1..MaxProjects, form \in ProjectForms :
          ProjectEdit(u, pid, form)
    \/ \E u \in Users, pid \in 1..MaxProjects, id \in MemberIds, role \in MemberRoles :
          AddProjectMember(u, pid, id, role)
    \/ \E u \in Users, pid \in 1..MaxProjects, id \in MemberIds :
          RemoveProjectMember(u, pid, id)
    \/ \E u \in Users, pid \in 1..MaxProjects, id \in MemberIds, role \in MemberRoles :
          UpdateMemberRole(u, pid, id, role)

ProjectSpec == ProjectInit /\ [][ProjectNext]_vars

(* ---------------------------------------------------------------------- *)
(* Mindmap: projects, nodes and connections                               *)
(* ---------------------------------------------------------------------- *)
MaxMindmapProjects == 2    \* MindmapProject rows ever created
MaxNodes == 3              \* MindmapNode rows ever created
MaxConnections == 2        \* MindmapConnection rows ever created

\* MindmapNode.project is nullable; no row has primary key 0
NullProject == 0

\* The names and titles that requests carry
MindmapNames == {"A", "B"}

\* The tags lists that requests carry
TagLists == {<<>>, <<"project", "main">>}

\* 'project' in node.tags and 'main' in node.tags
IsMainTagged(tags) ==
    /\ \E i \in 1..Len(tags) : tags[i] = "project"
    /\ \E i \in 1..Len(tags) : tags[i] = "main"

MindmapRespond(op, u, outcome) == [op |-> op, user |-> u, outcome |-> outcome]

\* on_delete=CASCADE of MindmapConnection.from_node and .to_node: the
\* connections left when only the nodes in kept remain
CascadeConnections(conns, kept) ==
    {c \in conns : c.from_node \in kept /\ c.to_node \in kept}

\* The table restricted to the rows with a key in kept
RestrictTo(table, kept) == [k \in kept |-> table[k]]

\* Mutant: every pair of the actor's own nodes may be connected
ConnectionDenied_ByNodeCreator(u, from_node, to_node) ==
    from_node.creator # u \/ to_node.creator # u

\* The permission check of create_connection
ConnectionDenied(u, from_node, to_node) ==
    \/ from_node.project # to_node.project
    \/ from_node.project = NullProject
    \/ mindmap_projects[from_node.project].creator # u

\* create_project
CreateMindmapProject(u, name) ==
    /\ next_mindmap_project_id <= MaxMindmapProjects
    /\ next_node_id <= MaxNodes
    /\ mindmap_projects' = mindmap_projects @@
          (next_mindmap_project_id :>
              [id |-> next_mindmap_project_id, name |-> name, creator |-> u])
    /\ next_mindmap_project_id' = next_mindmap_project_id + 1
    /\ mindmap_nodes' = mindmap_nodes @@
          (next_node_id :>
              [id |-> next_node_id, title |-> name, creator |-> u,
               project |-> next_mindmap_project_id,
               tags |-> <<"project", "main">>])
    /\ next_node_id' = next_node_id + 1
    /\ mindmap_response' = MindmapRespond("create_project", u, "success")
    /\ UNCHANGED <<mindmap_connections, next_connection_id, contains_lookup,
                   taskvars, projectvars, dailyvars>>

\* The node that update_project renames: the newest node of the project
\* whose tags contain both 'project' and 'main' (0 when there is none)
MainNodeOf(pid) ==
    LET tagged == {n \in DOMAIN mindmap_nodes :
                      /\ mindmap_nodes[n].project = pid
                      /\ IsMainTagged(mindmap_nodes[n].tags)}
    IN  IF tagged = {} THEN 0
        ELSE CHOOSE n \in tagged : \A m \in tagged : m <= n

\* The JSON bodies of update_project: with or without the key 'name'
ProjectUpdates == [has_name : BOOLEAN, name : MindmapNames]

\* update_project
UpdateMindmapProject(u, pid, data) ==
    /\ IF pid \notin DOMAIN mindmap_projects
       THEN /\ UNCHANGED <<mindmap_projects, mindmap_nodes>>
            /\ mindmap_response' = MindmapRespond("update_project", u, "error")
       ELSE IF mindmap_projects[pid].creator # u
       THEN /\ UNCHANGED <<mindmap_projects, mindmap_nodes>>
            /\ mindmap_response' = MindmapRespond("update_project", u, "denied")
       ELSE IF ~data.has_name
       THEN /\ UNCHANGED <<mindmap_projects, mindmap_nodes>>
            /\ mindmap_response' = MindmapRespond("update_project", u, "success")
       ELSE /\ mindmap_projects' = [mindmap_projects EXCEPT ![pid].name = data.name]
            /\ IF ~contains_lookup
               THEN /\ UNCHANGED mindmap_nodes
                    /\ mindmap_response' =
                          MindmapRespond("update_project", u, "error")
               ELSE /\ mindmap_nodes' =
                          IF MainNodeOf(pid) = 0 THEN mindmap_nodes
                          ELSE [mindmap_nodes EXCEPT ![MainNodeOf(pid)].title = data.name]
                    /\ mindmap_response' =
                          MindmapRespond("update_project", u, "success")
    /\ UNCHANGED <<next_mindmap_project_id, next_node_id, mindmap_connections,
                   next_connection_id, contains_lookup,
                   taskvars, projectvars, dailyvars>>

\* delete_project, with the cascade to the project's nodes and to their
\* connections
DeleteMindmapProject(u, pid) ==
    /\ IF pid \notin DOMAIN mindmap_projects
       THEN /\ UNCHANGED <<mindmap_projects, mindmap_nodes, mindmap_connections>>
            /\ mindmap_response' = MindmapRespond("delete_project", u, "error")
       ELSE IF mindmap_projects[pid].creator # u
       THEN /\ UNCHANGED <<mindmap_projects, mindmap_nodes, mindmap_connections>>
            /\ mindmap_response' = MindmapRespond("delete_project", u, "denied")
       ELSE LET kept == {n \in DOMAIN mindmap_nodes : mindmap_nodes[n].project # pid}
            IN  /\ mindmap_projects' =
                      RestrictTo(mindmap_projects, DOMAIN mindmap_projects \ {pid})
                /\ mindmap_nodes' = RestrictTo(mindmap_nodes, kept)
                /\ mindmap_connections' = CascadeConnections(mindmap_connections, kept)
                /\ mindmap_response' = MindmapRespond("delete_project", u, "success")
    /\ UNCHANGED <<next_mindmap_project_id, next_node_id, next_connection_id,
                   contains_lookup, taskvars, projectvars, dailyvars>>

\* create_node
CreateNode(u, pid, title, tags) ==
    /\ next_node_id <= MaxNodes
    /\ IF pid \notin DOMAIN mindmap_projects \/ mindmap_projects[pid].creator # u
       THEN /\ UNCHANGED <<mindmap_nodes, next_node_id>>
            /\ mindmap_response' = MindmapRespond("create_node", u, "not_found")
       ELSE /\ mindmap_nodes' = mindmap_nodes @@
                  (next_node_id :>
                      [id |-> next_node_id, title |-> title, creator |-> u,
                       project |-> pid, tags |-> tags])
            /\ next_node_id' = next_node_id + 1
            /\ mindmap_response' = MindmapRespond("create_node", u, "success")
    /\ UNCHANGED <<mindmap_projects, next_mindmap_project_id, mindmap_connections,
                   next_connection_id, contains_lookup,
                   taskvars, projectvars, dailyvars>>

\* The JSON bodies of update_node: the keys present, and their values
NodeUpdates == [keys : SUBSET {"title", "tags"}, title : MindmapNames, tags : TagLists]

\* The node after update_node assigned the fields present in data
NodeAssigned(node, data) ==
    [node EXCEPT !.title = IF "title" \in data.keys THEN data.title ELSE @,
                 !.tags = IF "tags" \in data.keys THEN data.tags ELSE @]

\* update_node
UpdateNode(u, nid, data) ==
    /\ IF nid \notin DOMAIN mindmap_nodes
       THEN /\ UNCHANGED <<mindmap_projects, mindmap_nodes>>
            /\ mindmap_response' = MindmapRespond("update_node", u, "error")
       ELSE IF mindmap_nodes[nid].creator # u
       THEN /\ UNCHANGED <<mindmap_projects, mindmap_nodes>>
            /\ mindmap_response' = MindmapRespond("update_node", u, "denied")
       ELSE LET node == NodeAssigned(mindmap_nodes[nid], data)
            IN  /\ mindmap_projects' =
                      IF /\ "title" \in data.keys
                         /\ IsMainTagged(node.tags)
                         /\ node.project # NullProject
                      THEN [mindmap_projects EXCEPT ![node.project].name = data.title]
                      ELSE mindmap_projects
                /\ mindmap_nodes' = [mindmap_nodes EXCEPT ![nid] = node]
                /\ mindmap_response' = MindmapRespond("update_node", u, "success")
    /\ UNCHANGED <<next_mindmap_project_id, next_node_id, mindmap_connections,
                   next_connection_id, contains_lookup,
                   taskvars, projectvars, dailyvars>>

\* delete_node, with the cascade to its connections
DeleteNode(u, nid) ==
    /\ IF nid \notin DOMAIN mindmap_nodes
       THEN /\ UNCHANGED <<mindmap_nodes, mindmap_connections>>
            /\ mindmap_response' = MindmapRespond("delete_node", u, "error")
       ELSE IF mindmap_nodes[nid].creator # u
       THEN /\ UNCHANGED <<mindmap_nodes, mindmap_connections>>
            /\ mindmap_response' = MindmapRespond("delete_node", u, "denied")
       ELSE LET kept == DOMAIN mindmap_nodes \ {nid}
            IN  /\ mindmap_nodes' = RestrictTo(mindmap_nodes, kept)
                /\ mindmap_connections' = CascadeConnections(mindmap_connections, kept)
                /\ mindmap_response' = MindmapRespond("delete_node", u, "success")
    /\ UNCHANGED <<mindmap_projects, next_mindmap_project_id, next_node_id,
                   next_connection_id, contains_lookup,
                   taskvars, projectvars, dailyvars>>

\* create_connection; a second connection of the same pair violates
\* unique_together and ends in the error response
CreateConnection(u, from_id, to_id) ==
    /\ next_connection_id <= MaxConnections
    /\ IF from_id \notin DOMAIN mindmap_nodes \/ to_id \notin DOMAIN mindmap_nodes
       THEN /\ UNCHANGED <<mindmap_connections, next_connection_id>>
            /\ mindmap_response' = MindmapRespond("create_connection", u, "error")
       ELSE IF ConnectionDenied(u, mindmap_nodes[from_id], mindmap_nodes[to_id])
       THEN /\ UNCHANGED <<mindmap_connections, next_connection_id>>
            /\ mindmap_response' = MindmapRespond("create_connection", u, "denied")
       ELSE IF \E c \in mindmap_connections :
                  c.from_node = from_id /\ c.to_node = to_id
       THEN /\ UNCHANGED <<mindmap_connections, next_connection_id>>
            /\ mindmap_response' = MindmapRespond("create_connection", u, "error")
       ELSE /\ mindmap_connections' = mindmap_connections \cup
                  {[id |-> next_connection_id, from_node |-> from_id,
                    to_node |-> to_id]}
            /\ next_connection_id' = next_connection_id + 1
            /\ mindmap_response' = MindmapRespond("create_connection", u, "success")
    /\ UNCHANGED <<mindmap_projects, next_mindmap_project_id, mindmap_nodes,
                   next_node_id, contains_lookup, taskvars, projectvars, dailyvars>>

\* delete_connection
DeleteConnection(u, cid) ==
    /\ IF \A c \in mindmap_connections : c.id # cid
       THEN /\ UNCHANGED mindmap_connections
            /\ mindmap_response' = MindmapRespond("delete_connection", u, "error")
       ELSE LET connection == CHOOSE c \in mindmap_connections : c.id = cid
            IN  IF \/ mindmap_nodes[connection.from_node].creator # u
                   \/ mindmap_nodes[connection.to_node].creator # u
                THEN /\ UNCHANGED mindmap_connections
                     /\ mindmap_response' =
                           MindmapRespond("delete_connection", u, "denied")
                ELSE /\ mindmap_connections' = mindmap_connections \ {connection}
                     /\ mindmap_response' =
                           MindmapRespond("delete_connection", u, "success")
    /\ UNCHANGED <<mindmap_projects, next_mindmap_project_id, mindmap_nodes,
                   next_node_id, next_connection_id, contains_lookup,
                   taskvars, projectvars, dailyvars>>

\* Empty mindmap tables, on a database backend with or without the JSON
\* contains lookup
MindmapInit ==
    /\ daily_tasks = <<>>
    /\ next_id = 1
    /\ completions = {}
    /\ today = 0
    /\ inflight = {}
    /\ response = NoResponse
    /\ sort_list = <<>>
    /\ sort_result = <<>>
    /\ schedule = NoSchedule
    /\ detail = NoDetail
    /\ TaskIdle
    /\ ProjectIdle
    /\ mindmap_projects = <<>>
    /\ next_mindmap_project_id = 1
    /\ mindmap_nodes = <<>>
    /\ next_node_id = 1
    /\ mindmap_connections = {}
    /\ next_connection_id = 1
    /\ contains_lookup \in BOOLEAN
    /\ mindmap_response = NoTaskResponse

\* The project operations and update_node
MainNodeNext ==
    \/ \E u \in Users, name \in MindmapNames : CreateMindmapProject(u, name)
    \/ \E u \in Users, pid \in 1..MaxMindmapProjects, data \in ProjectUpdates :
          UpdateMindmapProject(u, pid, data)
    \/ \E u \in Users, nid \in 1..MaxNodes, data \in NodeUpdates :
          UpdateNode(u, nid, data)

\* The node and connection operations, on projects that are created with
\* one name and deleted
MindmapNext ==
    \/ \E u \in Users : CreateMindmapProject(u, "A")
    \/ \E u \in Users, pid \in 1..MaxMindmapProjects : DeleteMindmapProject(u, pid)
    \/ \E u \in Users, pid \in 1..MaxMindmapProjects, tags \in TagLists :
          CreateNode(u, pid, "A", tags)
    \/ \E u \in Users, nid \in 1..MaxNodes,
          data \in {d \in NodeUpdates : d.title = "A"} : UpdateNode(u, nid, data)
    \/ \E u \in Users, nid \in 1..MaxNodes : DeleteNode(u, nid)
    \/ \E u \in Users, from_id \in 1..MaxNodes, to_id \in 1..MaxNodes :
          CreateConnection(u, from_id, to_id)
    \/ \E u \in Users, cid \in 1..MaxConnections : DeleteConnection(u, cid)

MainNodeSpec == MindmapInit /\ [][MainNodeNext]_vars

MindmapSpec == MindmapInit /\ [][MindmapNext]_vars

(* ---------------------------------------------------------------------- *)
(* Properties                                                             *)
(* ---------------------------------------------------------------------- *)
SameTriple(c1, c2) ==
    c1.daily_task = c2.daily_task /\ c1.user = c2.user /\ c1.date = c2.date

\* u is the owner or an assignee of the task
Permitted(task, u) == task.creator = u \/ u \in task.assignees

\* The weekdays (0..6) stored in a task's scheduled_days
StoredWeekdays(task) ==
    {n \in 0..6 : \E i \in 1..Len(task.scheduled_days) :
                     task.scheduled_days[i] = [int |-> n]}

\* The tasks due for user u on day d: active, u owner or assignee, and the
\* day's weekday among the stored weekdays
DueTasks(tasks, u, d) ==
    {i \in DOMAIN tasks : /\ tasks[i].is_active
                          /\ Permitted(tasks[i], u)
                          /\ (d % 7) \in StoredWeekdays(tasks[i])}

\* The number of completion records of a (task, user, date) triple
RecordsOf(table, tid, u, d) ==
    Cardinality({c \in table : c.daily_task = tid /\ c.user = u /\ c.date = d})

\* C1: in every reachable state the ledger holds at most one completion
\* record for each (task, user, date) triple.
C1_OneRecordPerTriple ==
    \A c1, c2 \in completions : SameTriple(c1, c2) => c1 = c2

\* A second completion of a recorded triple was attempted and two records
\* of different triples are in the ledger
C1_Witness ==
    /\ Cardinality(completions) = 2
    /\ response.op = "today"
    /\ response.outcome = "already_completed"

\* C2: a completion request by a permitted user with well-formed minutes
\* for a triple without a record (the first call) creates the triple's one
\* record and reports success; a completion request for a triple that
\* already has a record (the second call) reports "already completed",
\* creates no row and leaves the ledger, the first record's notes and
\* minutes included, as it was; the triple has exactly one record
\* afterwards.
C2_SecondCompleteIsNoOp ==
    [][\A u \in Users, req \in TodayRequests :
          ( /\ req.method = "POST"
            /\ "complete_task" \in req.params
            /\ req.task_id \in DOMAIN daily_tasks
            /\ Permitted(daily_tasks[req.task_id], u)
            /\ response'.user = u
            /\ TodayView(u, req) )
          => IF RecordsOf(completions, req.task_id, u, today) > 0
             THEN /\ response'.outcome = "already_completed"
                  /\ completions' = completions
                  /\ RecordsOf(completions', req.task_id, u, today) = 1
             ELSE (req.form.actual_minutes = "" \/ ParsesAsInt(req.form.actual_minutes))
                     => /\ response'.outcome = "success"
                        /\ RecordsOf(completions', req.task_id, u, today) = 1
                        /\ \A c \in completions : c \in completions']_vars

\* The second call was answered "already completed" and the user's triple
\* of today has its one record
C2_Witness ==
    /\ response.op = "today"
    /\ response.outcome = "already_completed"
    /\ \E tid \in DOMAIN daily_tasks :
          RecordsOf(completions, tid, response.user, today) = 1

\* C3: when a completion request that passed its existence check resumes at
\* the insert (its minutes well-formed, its task still there), the triple
\* has exactly one record afterwards, whatever ran in between.
C3_ConcurrentCompleteOneRecord ==
    [][\A r \in inflight :
          ( /\ r.task_id \in DOMAIN daily_tasks
            /\ ~(r.form.actual_minutes # "" /\ ~ParsesAsInt(r.form.actual_minutes))
            /\ CompleteInsert(r) )
          => RecordsOf(completions', r.task_id, r.user, r.date) = 1]_vars

\* The losing request of a double submission was refused by the storage
\* layer and the triple has its one record
C3_Witness ==
    /\ response.op = "today"
    /\ response.outcome = "exception"
    /\ inflight = {}
    /\ \E c \in completions : c.user = response.user

\* C4: a completion request by a permitted user for a triple that already
\* has a record ends "already completed", also when it is the losing
\* request of two concurrent submissions resuming at its insert.
C4_DuplicateEndsAlreadyCompleted ==
    [][\A r \in inflight :
          ( /\ r.task_id \in DOMAIN daily_tasks
            /\ Permitted(daily_tasks[r.task_id], r.user)
            /\ ~(r.form.actual_minutes # "" /\ ~ParsesAsInt(r.form.actual_minutes))
            /\ RecordsOf(completions, r.task_id, r.user, r.date) > 0
            /\ CompleteInsert(r) )
          => response'.outcome = "already_completed"]_vars

\* C5 as claimed: the due check is true exactly when today's weekday is
\* among the task's stored weekdays and the task is active.
C5_DueCheckRequiresActive ==
    \A tid \in DOMAIN daily_tasks :
        is_scheduled_today(daily_tasks[tid], today)
            <=> ( /\ (today % 7) \in StoredWeekdays(daily_tasks[tid])
                  /\ daily_tasks[tid].is_active )

\* C5 as amended: the due check is true exactly when today's weekday is
\* among the task's stored weekdays, whatever the active flag.
C5_DueCheckIsWeekdayMembership ==
    \A tid \in DOMAIN daily_tasks :
        is_scheduled_today(daily_tasks[tid], today)
            <=> (today % 7) \in StoredWeekdays(daily_tasks[tid])

\* An inactive task whose stored weekdays contain today's weekday
C5_Witness ==
    \E tid \in DOMAIN daily_tasks :
        /\ ~daily_tasks[tid].is_active
        /\ (today % 7) \in StoredWeekdays(daily_tasks[tid])
        /\ is_scheduled_today(daily_tasks[tid], today)

\* C6: the due-today list a request gets is exactly the set of tasks due
\* for its user today.
C6_DueListExact ==
    [][\A u \in Users, req \in TodayRequests :
          ( /\ ~("complete_task" \in req.params)
            /\ response'.user = u
            /\ TodayView(u, req) )
          => Range(response'.today_tasks) = DueTasks(daily_tasks, u, today)]_vars

C8_StrangerGetsEmptyList ==
    [][\A u \in Users, req \in TodayRequests :
          ( /\ \A i \in DOMAIN daily_tasks : ~Permitted(daily_tasks[i], u)
            /\ ~("complete_task" \in req.params)
            /\ response'.user = u
            /\ TodayView(u, req) )
          => /\ response'.today_tasks = <<>>
             /\ response'.outcome = "rendered"]_vars

\* The page was rendered for a user without any task while another user's
\* active task is scheduled today
C8_Witness ==
    /\ response.op = "today"
    /\ response.outcome = "rendered"
    /\ response.today_tasks = <<>>
    /\ \A i \in DOMAIN daily_tasks : ~Permitted(daily_tasks[i], response.user)
    /\ \E i \in DOMAIN daily_tasks :
          /\ daily_tasks[i].is_active
          /\ (today % 7) \in StoredWeekdays(daily_tasks[i])

\* C9: the completion status a request gets is exactly the set of tasks due
\* for its user today that have a completion record of that user and today.
C9_CompletedStatusExact ==
    [][\A u \in Users, req \in TodayRequests :
          ( /\ ~("complete_task" \in req.params)
            /\ response'.user = u
            /\ TodayView(u, req) )
          => response'.completed_today =
                {i \in DueTasks(daily_tasks, u, today) :
                    RecordsOf(completions, i, u, today) > 0}]_vars

\* C10: a request that submits no completion (a GET, or a POST whose body
\* lacks complete_task) changes neither the tasks nor the ledger.
C10_ViewIsReadOnly ==
    [][\A u \in Users, req \in TodayRequests :
          ( /\ (req.method = "GET" \/ "complete_task" \notin req.params)
            /\ response'.user = u
            /\ TodayView(u, req) )
          => /\ daily_tasks' = daily_tasks
             /\ next_id' = next_id
             /\ completions' = completions]_vars

\* The page was rendered while tasks and completion records exist
C10_Witness ==
    /\ response.op = "today"
    /\ response.outcome = "rendered"
    /\ daily_tasks # <<>>
    /\ completions # {}

\* The integers stored in a scheduled_days list
StoredInts(days) == {n \in 0..9 : \E i \in 1..Len(days) : days[i] = [int |-> n]}

\* The weekdays that a posted list of codes denotes
PostedInts(codes) ==
    {n \in 0..9 : \E i \in 1..Len(codes) : codes[i] = DigitStr[n + 1]}

NoDuplicates(seq) == \A i, j \in 1..Len(seq) : seq[i] = seq[j] => i = j

\* The names of the weekdays of W from weekday k on, Monday first, each
\* but the first preceded by ", "
RECURSIVE MonToSunFrom(_, _, _)
MonToSunFrom(k, W, first) ==
    IF k > 6 THEN ""
    ELSE IF k \notin W THEN MonToSunFrom(k + 1, W, first)
    ELSE (IF first THEN "" ELSE ", ")
            \o <<"Mon", "Tue", "Wed", "Thu", "Fri", "Sat", "Sun">>[k + 1]
            \o MonToSunFrom(k + 1, W, FALSE)

\* C11: the display of a stored weekday set (a list without repetitions, in
\* whatever order it was stored) is the abbreviated names of its weekdays
\* in Monday-to-Sunday order joined by ", "; the display of the empty list
\* is "No days scheduled".
C11_DisplayIsCanonical ==
    schedule.step \in {"unsaved", "created", "resaved"} =>
        /\ schedule.stored = <<>> => schedule.display = "No days scheduled"
        /\ (schedule.stored # <<>> /\ NoDuplicates(schedule.stored))
              => schedule.display =
                    MonToSunFrom(0, StoredInts(schedule.stored), TRUE)

\* Sunday, Monday and Wednesday were stored in that order and are displayed
\* Monday first
C11_Witness ==
    /\ schedule.step = "created"
    /\ schedule.stored = <<[int |-> 6], [int |-> 0], [int |-> 2]>>
    /\ schedule.display = "Mon, Wed, Sun"

\* A posted list carries a weekday code outside 0..6
HasCodeOutsideWeek(codes) ==
    \E i \in 1..Len(codes) : \A k \in 0..6 : codes[i] # DigitStr[k + 1]

\* C12: every stored task's scheduled_days holds only the integers 0..6;
\* a create, and an edit of an existing task by a permitted user, whose
\* posted days carry a code outside 0..6 ends in the validation error and
\* writes nothing.
C12_OnlyValidWeekdaysStored ==
    /\ [](\A tid \in DOMAIN daily_tasks :
             \A i \in 1..Len(daily_tasks[tid].scheduled_days) :
                \E k \in 0..6 : daily_tasks[tid].scheduled_days[i] = [int |-> k])
    /\ [][\A u \in Users, form \in DailyTaskForms :
             ( /\ HasCodeOutsideWeek(form.scheduled_days)
               /\ response'.user = u
               /\ \/ CreateTask(u, form)
                  \/ \E tid \in DOMAIN daily_tasks :
                        /\ Permitted(daily_tasks[tid], u)
                        /\ EditTask(u, tid, form) )
             => /\ response'.outcome = "invalid"
                /\ daily_tasks' = daily_tasks
                /\ next_id' = next_id
                /\ completions' = completions]_vars

\* A form with a code outside the week was rejected while a task is stored
C12_Witness ==
    /\ response.op = "edit"
    /\ response.outcome = "invalid"
    /\ \E tid \in DOMAIN daily_tasks : Permitted(daily_tasks[tid], response.user)

\* C13: a non-empty set of weekdays posted at creation, in any order, is
\* accepted, and the scheduled_days stored and reloaded holds exactly its
\* weekdays as integers; re-saving through the edit form with the reloaded
\* value is accepted and leaves exactly those weekdays.
C13_WeekdaySetRoundTrip ==
    ( /\ schedule.posted # <<>>
      /\ NoDuplicates(schedule.posted)
      /\ ~HasCodeOutsideWeek(schedule.posted) )
    => /\ schedule.step \notin {"invalid", "resave_invalid"}
       /\ schedule.step \in {"created", "resaved"}
             => /\ \A i \in 1..Len(schedule.stored) :
                      \E k \in 0..6 : schedule.stored[i] = [int |-> k]
                /\ StoredInts(schedule.stored) = PostedInts(schedule.posted)

\* Sunday and Monday were posted in that order, stored, reloaded and
\* re-saved through the edit form
C13_Witness ==
    /\ schedule.step = "resaved"
    /\ schedule.posted = <<"6", "0">>
    /\ StoredInts(schedule.stored) = {0, 6}

\* The detail page was asked for by a permitted user of an existing task
DetailAsked == detail.outcome \in {"rendered", "exception"}

\* User u has a completion record of task tid dated d
HasRecord(tid, u, d) ==
    \E c \in completions : c.daily_task = tid /\ c.user = u /\ c.date = d

\* The largest n such that the n days d, d-1, ..., d-(n-1) all have a record
LongestRun(tid, u, d) ==
    CHOOSE n \in 0..(d + 1) :
        /\ \A k \in 0..(n - 1) : HasRecord(tid, u, d - k)
        /\ ~HasRecord(tid, u, d - n)

\* The dates of the rate's window: today and the 30 days before it
Window == (today - 30)..today

\* C14: the streak the detail page reports for a task and user is the
\* largest n such that today and the n-1 days before it each have a record
\* of that task and user; records of other users or tasks do not count.
C14_StreakIsLongestRun ==
    DetailAsked =>
        /\ detail.outcome = "rendered"
        /\ detail.streak = LongestRun(detail.task_id, detail.user, today)

\* Task 1 is scheduled Monday/Wednesday/Friday, today is a Saturday, and
\* user u has completions of it on the Monday and the Friday before and
\* none today
StreakScenario(u) ==
    /\ 1 \in DOMAIN daily_tasks
    /\ StoredWeekdays(daily_tasks[1]) = {0, 2, 4}
    /\ today % 7 = 5
    /\ HasRecord(1, u, today - 5)
    /\ HasRecord(1, u, today - 1)
    /\ ~HasRecord(1, u, today)

\* C15 as claimed: in the scenario the streak reported is 3 when the
\* Wednesday has a completion too, and 1 when it has none.
C15_ScenarioStreakThree ==
    (DetailAsked /\ detail.task_id = 1 /\ StreakScenario(detail.user))
        => /\ detail.outcome = "rendered"
           /\ detail.streak = IF HasRecord(1, detail.user, today - 3) THEN 3 ELSE 1

\* C15 as amended: in the scenario the streak reported is 0, with or without
\* the Wednesday completion: the scan starts at the Saturday, which has no
\* completion, and no day is skipped for being unscheduled.
C15_ScenarioStreakZero ==
    (DetailAsked /\ detail.task_id = 1 /\ StreakScenario(detail.user))
        => /\ detail.outcome = "rendered"
           /\ detail.streak = 0

\* The page was rendered in the scenario with the Monday, Wednesday and
\* Friday completions
C15_Witness ==
    /\ detail.outcome = "rendered"
    /\ detail.task_id = 1
    /\ StreakScenario(detail.user)
    /\ HasRecord(1, detail.user, today - 3)
    /\ detail.streak = 0

\* C16: the number of completions that the rate is computed from is the
\* number of records of that task and user dated inside the window.
C16_NumeratorCountsWindow ==
    detail.outcome = "rendered" =>
        detail.total_completions =
            Cardinality({c \in completions : /\ c.daily_task = detail.task_id
                                             /\ c.user = detail.user
                                             /\ c.date \in Window})

C18_RateWithinPercentRange ==
    detail.outcome = "rendered" =>
        (detail.completion_rate >= 0 /\ detail.completion_rate <= 1000)

\* C19: a delete of an existing task succeeds only for the task's owner; a
\* delete by any other user, an assignee included, is rejected and leaves
\* the tasks and the completion records as they were.
C19_DeleteOnlyByOwner ==
    [][\A u \in Users, tid \in TaskIds :
          ( /\ tid \in DOMAIN daily_tasks
            /\ response'.user = u
            /\ DeleteTask(u, tid) )
          => IF daily_tasks[tid].creator = u
             THEN /\ response'.outcome = "success"
                  /\ tid \notin DOMAIN daily_tasks'
             ELSE /\ response'.outcome = "permission_denied"
                  /\ daily_tasks' = daily_tasks
                  /\ completions' = completions]_vars

\* An assignee's delete was rejected and the task and its completion
\* records are still there
C19_Witness ==
    /\ response.op = "delete"
    /\ response.outcome = "permission_denied"
    /\ \E tid \in DOMAIN daily_tasks :
          /\ response.user \in daily_tasks[tid].assignees
          /\ \E c \in completions : c.daily_task = tid

\* C20: an edit, a toggle_active or a complete of an existing task by a
\* user who is neither its owner nor an assignee is rejected and leaves
\* every task and the whole ledger as they were.
C20_StrangerCannotMutate ==
    [][\A u \in Users, tid \in TaskIds :
          ( /\ tid \in DOMAIN daily_tasks
            /\ ~Permitted(daily_tasks[tid], u)
            /\ response'.user = u
            /\ \/ \E form \in DailyTaskForms : EditTask(u, tid, form)
               \/ ToggleActive(u, tid)
               \/ \E req \in TodayRequests :
                     /\ req.method = "POST"
                     /\ "complete_task" \in req.params
                     /\ req.task_id = tid
                     /\ TodayView(u, req) )
          => /\ response'.outcome = "permission_denied"
             /\ daily_tasks' = daily_tasks
             /\ next_id' = next_id
             /\ completions' = completions]_vars

\* A stranger's request was rejected while the task has a completion record
C20_Witness ==
    /\ response.outcome = "permission_denied"
    /\ response.op \in {"edit", "toggle", "today"}
    /\ \E tid \in DOMAIN daily_tasks :
          /\ ~Permitted(daily_tasks[tid], response.user)
          /\ \E c \in completions : c.daily_task = tid

\* C21: a toggle_active of an existing task by its owner or an assignee
\* negates the task's active flag and leaves the task's other fields, every
\* other task and the completion ledger as they were.
C21_ToggleOnlyNegatesActive ==
    [][\A u \in Users, tid \in TaskIds :
          ( /\ tid \in DOMAIN daily_tasks
            /\ Permitted(daily_tasks[tid], u)
            /\ response'.user = u
            /\ ToggleActive(u, tid) )
          => /\ response'.outcome = "success"
             /\ DOMAIN daily_tasks' = DOMAIN daily_tasks
             /\ daily_tasks'[tid].is_active = ~daily_tasks[tid].is_active
             /\ daily_tasks'[tid] =
                   [daily_tasks[tid] EXCEPT !.is_active = daily_tasks'[tid].is_active]
             /\ \A i \in DOMAIN daily_tasks : i # tid => daily_tasks'[i] = daily_tasks[i]
             /\ next_id' = next_id
             /\ completions' = completions]_vars

\* An assignee who is not the owner toggled an active task off while the
\* task has a completion record
C21_Witness ==
    /\ response.op = "toggle"
    /\ response.outcome = "success"
    /\ \E tid \in DOMAIN daily_tasks :
          /\ ~daily_tasks[tid].is_active
          /\ response.user \in daily_tasks[tid].assignees
          /\ response.user # daily_tasks[tid].creator
          /\ \E c \in completions : c.daily_task = tid

\* C23: in every step a completion record stays in the ledger as it is,
\* its task, user, date, notes and minutes unchanged, unless the step deletes
\* its task.
C23_LedgerAppendOnly ==
    [][\A c \in completions :
          c \in completions' \/ c.daily_task \notin DOMAIN daily_tasks']_vars

\* The task was edited successfully while the ledger holds two records
C23_Witness ==
    /\ Cardinality(completions) = 2
    /\ response.op = "edit"
    /\ response.outcome = "success"

\* C24: an edit, delete, toggle_active or complete that names the id of a
\* task that does not exist ends "not found" and leaves the tasks and the
\* ledger as they were.
C24_MissingTaskNotFound ==
    [][\A u \in Users, tid \in TaskIds :
          ( /\ tid \notin DOMAIN daily_tasks
            /\ response'.user = u
            /\ \/ \E form \in DailyTaskForms : EditTask(u, tid, form)
               \/ DeleteTask(u, tid)
               \/ ToggleActive(u, tid)
               \/ \E req \in TodayRequests :
                     /\ req.method = "POST"
                     /\ "complete_task" \in req.params
                     /\ req.task_id = tid
                     /\ TodayView(u, req) )
          => /\ response'.outcome = "not_found"
             /\ daily_tasks' = daily_tasks
             /\ next_id' = next_id
             /\ completions' = completions]_vars

\* A request named the id of a task that was deleted
C24_Witness ==
    /\ response.outcome = "not_found"
    /\ next_id > 1
    /\ daily_tasks = <<>>

\* C22: every completion record references a task that exists, and the
\* owner's delete of a task removes exactly the completion records of that
\* task.
C22_DeleteCascadesExactly ==
    /\ [](\A c \in completions : c.daily_task \in DOMAIN daily_tasks)
    /\ [][\A u \in Users, tid \in 1..2 :
             ( /\ tid \in DOMAIN daily_tasks
               /\ daily_tasks[tid].creator = u
               /\ response'.user = u
               /\ DeleteTask(u, tid) )
             => /\ tid \notin DOMAIN daily_tasks'
                /\ completions' = {c \in completions : c.daily_task # tid}]_vars

\* Task 1 was deleted and a completion record of task 2 is still there
C22_Witness ==
    /\ response.op = "delete"
    /\ response.outcome = "success"
    /\ DOMAIN daily_tasks = {2}
    /\ \E c \in completions : c.daily_task = 2

\* C25: whenever the detail page is asked for by a permitted user of an
\* existing task, its streak computation ends without raising and the page
\* is rendered with a streak, also when a record exists for today.
C25_StreakNeverRaises ==
    DetailAsked =>
        /\ detail.outcome = "rendered"
        /\ detail.streak \in 0..(today + 1)

\* C26: every stored task has completed_at set exactly when its status is
\* 'completed', and in every step a task whose status is 'completed' before
\* and after keeps its completed_at.
C26_CompletedAtFollowsStatus ==
    /\ [](\A tid \in DOMAIN task_rows :
             (task_rows[tid].completed_at # <<>>) <=> (task_rows[tid].status = "completed"))
    /\ [][\A tid \in DOMAIN task_rows :
             ( /\ tid \in DOMAIN task_rows'
               /\ task_rows[tid].status = "completed"
               /\ task_rows'[tid].status = "completed" )
             => task_rows'[tid].completed_at = task_rows[tid].completed_at]_vars

\* A task completed at an earlier instant was saved again as completed and
\* still carries the earlier instant
C26_Witness ==
    /\ task_response.op \in {"edit", "update_status", "toggle_completion"}
    /\ task_response.outcome = "success"
    /\ \E tid \in DOMAIN task_rows :
          /\ task_rows[tid].status = "completed"
          /\ task_rows[tid].completed_at = <<0>>
    /\ now = 2

\* C27: an edit of an existing task through task_crud_view leaves the task's
\* creator as it was.
C27_EditKeepsCreator ==
    [][\A u \in Users, tid \in 1..MaxTaskRows, form \in TaskForms :
          ( /\ tid \in DOMAIN task_rows
            /\ task_response'.user = u
            /\ TaskEdit(u, tid, form) )
          => task_rows'[tid].creator = task_rows[tid].creator]_vars

\* The users that have a ProjectMember row of project pid
RowUsers(pid) == {u \in Users : \E r \in project_members : r.project = pid /\ r.user = u}

\* C28: after every project create, project edit, add, remove and role
\* update that completes, the project's members relation is exactly the
\* set of users with a ProjectMember row of the project; the creator of
\* every project has a ProjectMember row, and no step removes it or changes
\* its role.
C28_MembersMirrorRows ==
    /\ [][project_response'.outcome = "success"
             => /\ project_response'.project \in DOMAIN projects'
                /\ projects'[project_response'.project].members =
                      {u \in Users : \E r \in project_members' :
                          r.project = project_response'.project /\ r.user = u}]_vars
    /\ [](\A pid \in DOMAIN projects :
             projects[pid].creator \in RowUsers(pid))
    /\ [][\A pid \in DOMAIN projects : \A r \in project_members :
             (r.project = pid /\ r.user = projects[pid].creator)
                => r \in project_members']_vars

\* A member was removed and the relation holds the creator alone
C28_Witness ==
    /\ project_response.op = "remove_member"
    /\ project_response.outcome = "success"
    /\ \E pid \in DOMAIN projects :
          /\ projects[pid].members = {projects[pid].creator}
          /\ RowUsers(pid) = {projects[pid].creator}

\* The node belongs to a project other than its partner's, to no project,
\* or to a project that u did not create
ForeignPair(u, from_id, to_id) ==
    \/ mindmap_nodes[from_id].project # mindmap_nodes[to_id].project
    \/ mindmap_nodes[from_id].project \notin DOMAIN mindmap_projects
    \/ mindmap_projects[mindmap_nodes[from_id].project].creator # u

\* C29: after any sequence of create_node, update_node, delete_node,
\* create_connection, delete_connection and delete_project, every
\* connection joins two existing nodes of the same existing mindmap
\* project, and every node was created by the creator of its project; a
\* create_connection between nodes of different projects, or of a project
\* that the actor did not create, is denied and creates no connection.
C29_ConnectionsStayInsideOneProject ==
    /\ [](\A c \in mindmap_connections :
             /\ c.from_node \in DOMAIN mindmap_nodes
             /\ c.to_node \in DOMAIN mindmap_nodes
             /\ mindmap_nodes[c.from_node].project = mindmap_nodes[c.to_node].project
             /\ mindmap_nodes[c.from_node].project # NullProject)
    /\ [](\A n \in DOMAIN mindmap_nodes :
             /\ mindmap_nodes[n].project \in DOMAIN mindmap_projects
             /\ mindmap_nodes[n].creator =
                   mindmap_projects[mindmap_nodes[n].project].creator)
    /\ [][\A u \in Users : \A from_id, to_id \in DOMAIN mindmap_nodes :
             (/\ mindmap_response'.op = "create_connection"
              /\ mindmap_response'.user = u
              /\ ForeignPair(u, from_id, to_id)
              /\ CreateConnection(u, from_id, to_id))
                => /\ mindmap_response'.outcome = "denied"
                   /\ mindmap_connections' = mindmap_connections]_vars

\* A connection exists, the projects of two different creators exist, and
\* a create_connection has just been denied
C29_Witness ==
    /\ mindmap_connections # {}
    /\ \E p, q \in DOMAIN mindmap_projects :
          mindmap_projects[p].creator # mindmap_projects[q].creator
    /\ mindmap_response.op = "create_connection"
    /\ mindmap_response.outcome = "denied"

\* C30: after any sequence of create_project, update_project and
\* update_node, every node tagged both 'project' and 'main' has the name
\* of its project as its title.
C30_MainTitleIsProjectName ==
    \A n \in DOMAIN mindmap_nodes :
        (/\ IsMainTagged(mindmap_nodes[n].tags)
         /\ mindmap_nodes[n].project \in DOMAIN mindmap_projects)
            => mindmap_nodes[n].title =
                  mindmap_projects[mindmap_nodes[n].project].name

====
